---- MODULE Spec2Model ----
(***************************************************************************)
(* A model of the batch orchestration engine of api-check: the client-side *)
(* checker store (startCheck / pauseCheck / resumeCheck / stopCheck, the   *)
(* batch scheduler, the WebSocket listeners, the result buffer) together   *)
(* with the browser objects it drives (WebSocket instances, timers) and    *)
(* the backend session (TaskManager) behind every WebSocket.               *)
(***************************************************************************)
EXTENDS Integers, Sequences, FiniteSets, TLC

\* ------------------------------------------------------------------------
\* Program constants (scaled where the original is too large to enumerate)
\* ------------------------------------------------------------------------

\* checker store: BATCH_SIZE = 500, scaled down
BATCH_SIZE == 2
\* constants: MAX_KEYS_LIMIT = 50000, scaled down
MAX_KEYS_LIMIT == 3
\* checker store: MAX_RECONNECT_ATTEMPTS = 3 (kept)
MAX_RECONNECT_ATTEMPTS == 3
\* checker store: BUFFER_MAX_SIZE = 50, scaled down
BUFFER_MAX_SIZE == 2
\* config store: threshold = ref(1)
threshold == 1
\* TaskManager: this.concurrency = concurrency || 5
DefaultConcurrency == 5

\* ------------------------------------------------------------------------
\* Bounds of the model
\* ------------------------------------------------------------------------

\* WebSocket objects created over the whole behaviour; every run, every
\* resume and every reconnection needs a new one, so this bounds them all
MaxSockets == 4
\* runs started (startCheck calls that reach processNextBatch)
MaxRuns == 1
\* the concurrency setting ranges over 1..MaxConcurrency
MaxConcurrency == 2
\* items in the largest start command a session on its own receives
MaxItems == 3
\* messages a session on its own receives
MaxCommands == 3

\* settings panel: the range handleConcurrencyInput clamps to
CONCURRENCY_MIN == 1
CONCURRENCY_MAX == 20
\* config store: concurrency = ref(10)
InitialConcurrency == 10

\* validator: calls of categorizeTokenError in a row
MaxCategorized == 2

\* ------------------------------------------------------------------------
\* Data
\* ------------------------------------------------------------------------

Min(a, b) == IF a < b THEN a ELSE b

\* distinct API keys; 0 stands for an empty field of the raw input
Tokens == 1..(MAX_KEYS_LIMIT + 1)

CATEGORIES == <<"valid", "lowBalance", "zeroBalance", "noQuota", "rateLimit", "invalid", "duplicate">>

CategorySet == {CATEGORIES[i] : i \in 1..Len(CATEGORIES)}

\* provider keys the config store can hold when a run starts; "legacy" is a
\* key of the frontend build that the deployed backend's table does not have
ProviderKeys == {"openai", "legacy"}

\* the backend's provider table
providersData == {"openai", "deepseek"}

\* providers[...].hasBalance of the provider metadata
hasBalance(provider) == provider = "deepseek"

RECURSIVE SeqsUpTo(_, _)
SeqsUpTo(S, n) ==
    IF n = 0 THEN {<<>>}
    ELSE LET shorter == SeqsUpTo(S, n - 1)
         IN  shorter \cup {Append(s, x) : s \in {t \in shorter : Len(t) = n - 1}, x \in S}

\* a field sequence is canonical when new tokens appear in the order 1, 2, 3, ...
\* (keys are interchangeable, so one representative per renaming is enough)
Canonical(fields) ==
    \A i \in 1..Len(fields) :
        fields[i] > 1 => \E j \in 1..(i - 1) : fields[j] = fields[i] - 1

\* the raw text of the key input box, already cut at the separators , ; \n \r :
\* a sequence of fields, 0 being a field that is empty after trim();
\* the empty sequence is a text that is blank after trim()
\* (an empty field is tried in short texts only, and one text is over the limit)
InputSet ==
    {f \in SeqsUpTo({0} \cup Tokens, MAX_KEYS_LIMIT + 1) :
        /\ Canonical(f)
        /\ (\E i \in 1..Len(f) : f[i] = 0) => Len(f) <= 2
        /\ Len(f) > MAX_KEYS_LIMIT => \A i \in 1..Len(f) : f[i] = i}

\* split(...).map(t => t.trim()).filter(Boolean)
ParseTokens(fields) == SelectSeq(fields, LAMBDA t : t # 0)

\* ------------------------------------------------------------------------
\* Texts and upstream responses
\* ------------------------------------------------------------------------

\* a text is the sequence of its words (spaces and underscores separate
\* words); an absent or empty text is <<>>
LowerWord(w) ==
    CASE w = "Quota" -> "quota"
      [] w = "PermissionDenied" -> "permissiondenied"
      [] w = "Location" -> "location"
      [] w = "Billing" -> "billing"
      [] w = "Rate" -> "rate"
      [] w = "Alpha" -> "alpha"
      [] w = "SK" -> "sk"
      [] OTHER -> w

\* String.prototype.toLowerCase
toLowerCase(text) == [i \in DOMAIN text |-> LowerWord(text[i])]

\* String.prototype.includes
includes(text, kw) ==
    \E i \in 0..(Len(text) - Len(kw)) : \A j \in 1..Len(kw) : text[i + j] = kw[j]

\* isNaN of a text: only texts that spell a number are numbers
isNaN(text) == text \notin {<<"400">>, <<"401">>, <<"429">>}

\* the error member of a parsed body without any of the members read
NoErrorMember == [reason |-> <<>>, code |-> <<>>, param |-> <<>>, type |-> <<>>, message |-> <<>>]

\* a parsed body that is an object without any of the members read
EmptyObject ==
    [json |-> TRUE, text |-> <<>>, error |-> NoErrorMember, code |-> <<>>, type |-> <<>>,
     message |-> <<>>, errors |-> <<>>, detail |-> <<>>, detailIsObject |-> FALSE]

\* a body that is not JSON: JSON.parse throws and the raw text is kept
TextContent(text) == [EmptyObject EXCEPT !.json = FALSE, !.text = text]

\* the error bodies the upstream can answer with
ErrorContents ==
    {[EmptyObject EXCEPT !.error.code = <<"unsupported", "parameter">>,
                         !.error.param = <<"max", "tokens">>,
                         !.error.message = <<"Unsupported", "parameter">>],
     [EmptyObject EXCEPT !.error.code = <<"unsupported", "parameter">>,
                         !.error.param = <<"temperature">>],
     [EmptyObject EXCEPT !.error.code = <<"invalid", "api", "key">>],
     [EmptyObject EXCEPT !.error.type = <<"insufficient", "quota">>,
                         !.error.message = <<"You", "exceeded", "your", "Quota">>],
     EmptyObject,
     TextContent(<<"Bad", "Gateway">>)}

\* a fetch that rejects
FetchRejects == [throws |-> TRUE, ok |-> FALSE, status |-> 0, stream |-> "error", content |-> EmptyObject]

\* a Response: whether its status is 2xx, what the first read of its body
\* gives, and what its body parses to
Response(ok, status, stream, content) ==
    [throws |-> FALSE, ok |-> ok, status |-> status, stream |-> stream, content |-> content]

\* what a validation request can be answered with
Responses ==
    {FetchRejects}
    \cup {Response(TRUE, 200, s, c) : s \in {"chunk", "done", "error"},
                                      c \in {EmptyObject, TextContent(<<"data:">>)}}
    \cup {Response(FALSE, s, "chunk", c) : s \in {400, 401, 429}, c \in ErrorContents}

\* what the retried validation request can be answered with
RetryResponses ==
    {FetchRejects,
     Response(TRUE, 200, "chunk", EmptyObject),
     Response(TRUE, 200, "done", EmptyObject),
     Response(FALSE, 401, "chunk", [EmptyObject EXCEPT !.error.code = <<"invalid", "api", "key">>])}
    \cup {Response(FALSE, 400, "chunk", c) : c \in {x \in ErrorContents :
                                                      x.error.code = <<"unsupported", "parameter">>}}

\* what the balance endpoint can be answered with: a rejected fetch, a
\* non-2xx response, or a 2xx response whose body is not JSON, is the JSON
\* value null, is an object without the members the adapter reads, or
\* carries an amount
BalanceResponses ==
    {[throws |-> TRUE, ok |-> FALSE, body |-> "text", amount |-> 0],
     [throws |-> FALSE, ok |-> FALSE, body |-> "object", amount |-> 0]}
    \cup {[throws |-> FALSE, ok |-> TRUE, body |-> b, amount |-> 0] : b \in {"text", "null", "object"}}
    \cup {[throws |-> FALSE, ok |-> TRUE, body |-> "usable", amount |-> a] : a \in {0, 1, 5}}

\* ------------------------------------------------------------------------
\* The validator (checkers.js)
\* ------------------------------------------------------------------------

BALANCE_UNAVAILABLE == [thrown |-> FALSE, balance |-> -1, message |-> <<"valid", "but", "balance", "unavailable">>]

\* an adapter's return value without a message
Balance(amount) == [thrown |-> FALSE, balance |-> amount, message |-> <<>>]

\* an exception leaving an adapter
AdapterThrows == [thrown |-> TRUE, balance |-> 0, message |-> <<>>]

\* the common head of every adapter: await secureProxiedFetch, then
\* await resp.json() on a 2xx response and the first member access
adapterReads(resp) == ~resp.throws /\ resp.ok /\ resp.body \notin {"text", "null"}

adapterThrows(resp) == resp.throws \/ (resp.ok /\ resp.body \in {"text", "null"})

checkOpenRouterBalance(resp) ==
    IF adapterThrows(resp) THEN AdapterThrows
    ELSE IF adapterReads(resp)
         THEN Balance(IF resp.body = "usable" THEN resp.amount ELSE 0)
         ELSE BALANCE_UNAVAILABLE

checkSiliconFlowBalance(resp) ==
    IF adapterThrows(resp) THEN AdapterThrows
    ELSE IF adapterReads(resp)
         THEN Balance(IF resp.body = "usable" THEN resp.amount ELSE -1)
         ELSE BALANCE_UNAVAILABLE

checkDeepSeekBalance(resp) ==
    IF adapterThrows(resp) THEN AdapterThrows
    ELSE IF adapterReads(resp) /\ resp.body = "usable"
         THEN Balance(resp.amount)
         ELSE BALANCE_UNAVAILABLE

checkMoonshotBalance(resp) ==
    IF adapterThrows(resp) THEN AdapterThrows
    ELSE IF adapterReads(resp)
         THEN Balance(IF resp.body = "usable" /\ resp.amount # 0 THEN resp.amount ELSE -1)
         ELSE BALANCE_UNAVAILABLE

checkNewAPIBalance(resp) ==
    IF adapterThrows(resp) THEN AdapterThrows
    ELSE IF adapterReads(resp) /\ resp.body = "usable"
         THEN Balance(resp.amount)
         ELSE BALANCE_UNAVAILABLE

\* the keys of balanceCheckers
balanceCheckers ==
    {"checkOpenRouterBalance", "checkSiliconFlowBalance", "checkDeepSeekBalance",
     "checkMoonshotBalance", "checkNewAPIBalance"}

\* balanceCheckers[name](...)
callBalanceChecker(name, resp) ==
    CASE name = "checkOpenRouterBalance" -> checkOpenRouterBalance(resp)
      [] name = "checkSiliconFlowBalance" -> checkSiliconFlowBalance(resp)
      [] name = "checkDeepSeekBalance" -> checkDeepSeekBalance(resp)
      [] name = "checkMoonshotBalance" -> checkMoonshotBalance(resp)
      [] name = "checkNewAPIBalance" -> checkNewAPIBalance(resp)

\* JSON.stringify of an object whose values are the given words, and
\* String of a text
JSONstringify(words) == <<"{">> \o words \o <<"}">>

String(text) == text

\* handleApiError with the tests of error.code and error.message exchanged
\* (a fault the precedence property must detect)
handleApiErrorMessageFirst(response) ==
    LET c == response.content
        message ==
            IF c.error.reason # <<>> THEN c.error.reason
            ELSE IF c.error.message # <<>> THEN c.error.message
            ELSE IF c.error.code # <<>> /\ isNaN(c.error.code) THEN c.error.code
            ELSE IF c.message # <<>> THEN c.message
            ELSE IF c.errors # <<>> THEN c.errors
            ELSE IF c.detail # <<>>
                 THEN IF c.detailIsObject THEN JSONstringify(c.detail) ELSE c.detail
            ELSE IF response.status = 401 THEN <<"authentication", "failed">>
            ELSE IF response.status = 429 THEN <<"too", "many", "requests">>
            ELSE <<"HTTP", ToString(response.status)>>
    IN  [message |-> message,
         rawError |-> [absent |-> FALSE, status |-> response.status, content |-> c]]

\* handleApiError: the message and the raw error of a non-2xx response
handleApiError(response) ==
    LET rawErrorContent == response.content
        reason == rawErrorContent.error.reason
        code == rawErrorContent.error.code
        errorMessage == rawErrorContent.error.message
        topLevelMessage == rawErrorContent.message
        detail == rawErrorContent.detail
        message ==
            IF reason # <<>> THEN String(reason)
            ELSE IF code # <<>> /\ isNaN(code) THEN String(code)
            ELSE IF errorMessage # <<>> THEN String(errorMessage)
            ELSE IF topLevelMessage # <<>> THEN String(topLevelMessage)
            ELSE IF rawErrorContent.errors # <<>> THEN String(rawErrorContent.errors)
            ELSE IF detail # <<>>
                 THEN IF rawErrorContent.detailIsObject THEN JSONstringify(detail)
                      ELSE String(detail)
            ELSE IF response.status = 401 THEN <<"authentication", "failed">>
            ELSE IF response.status = 429 THEN <<"too", "many", "requests">>
            ELSE <<"HTTP", ToString(response.status)>>
    IN  [message |-> message,
         rawError |-> [absent |-> FALSE, status |-> response.status, content |-> rawErrorContent]]

\* a result without a rawError member
NoRawError == [absent |-> TRUE, status |-> 0, content |-> EmptyObject]

\* a result object: balanceSet tells whether it has a balance member, an
\* absent message is <<>>, an absent rawResponse is "undefined"
Result(token, isValid, message, rawError, error, rawResponse) ==
    [token |-> token, isValid |-> isValid, message |-> message, rawError |-> rawError,
     error |-> error, rawResponse |-> rawResponse, balanceSet |-> FALSE, balance |-> 0]

\* what a call has done to the outside so far: the requests sent, and the
\* reads, cancels and lock releases on stream readers
NoEffects == [requests |-> <<>>, reads |-> 0, cancels |-> 0, releases |-> 0]

\* a call that returned
Returned(io, result) == [thrown |-> FALSE, io |-> io, result |-> result]

\* a call whose promise rejected
Rejected(io, token) ==
    [thrown |-> TRUE, io |-> io,
     result |-> Result(token, FALSE, <<>>, NoRawError, FALSE, "undefined")]

\* a variant of the catch block that lets the exception through
catchBlockRethrowing(io, token) == Rejected(io, token)

\* the catch block of _checkTokenTemplate
catchBlock(io, token) ==
    Returned(io, Result(token, FALSE, <<"network", "error", "or", "unknown", "exception">>,
                        [absent |-> FALSE, status |-> 0, content |-> TextContent(<<"fetch", "failed">>)],
                        TRUE, "undefined"))

\* the members of the request body each strategy's buildRequest writes
buildRequest(style) ==
    CASE style = "openai" ->
            [url |-> "/chat/completions", body |-> {"model", "messages", "max_tokens", "stream"}]
      [] style = "openai_responses" ->
            [url |-> "/responses", body |-> {"model", "input", "max_output_tokens", "stream"}]
      [] style = "anthropic" ->
            [url |-> "/messages", body |-> {"model", "max_tokens", "messages", "stream"}]
      [] style = "gemini" ->
            [url |-> "generateContent", body |-> {"contents", "generationConfig"}]

\* a variant of retryBody that adds the new member and keeps max_tokens
retryBodyKeepingMaxTokens(body) == body \cup {"max_completion_tokens"}

\* openai.onFail: delete newBody.max_tokens; newBody.max_completion_tokens = ...
retryBody(body) == (body \ {"max_tokens"}) \cup {"max_completion_tokens"}

apiStrategies(style) == [buildRequest |-> buildRequest(style), onFail |-> style = "openai"]

\* the requests of a call that went to the validation endpoint
ValidationRequests(io) == SelectSeq(io.requests, LAMBDA r : r.url # "balance")

\* secureProxiedFetch for a validation request: the next answer of the
\* upstream
secureProxiedFetch(env, sent) == env.validation[Min(Len(ValidationRequests(sent)), Len(env.validation))]

RECURSIVE _checkTokenTemplate(_, _, _, _, _, _)

\* _checkTokenTemplate, given what the call has done so far
_checkTokenTemplate(io, token, providerMeta, providerConfig, env, strategy) ==
    LET enableStream == providerConfig.enableStream
        request == strategy.buildRequest
        sent == [io EXCEPT !.requests = Append(@, request)]
        response == secureProxiedFetch(env, sent)
        \* try { read } finally { cancel; releaseLock }
        read == [sent EXCEPT !.reads = @ + 1, !.cancels = @ + 1, !.releases = @ + 1]
        afterBody == IF enableStream THEN read ELSE sent
        rawResponse == IF enableStream THEN "note: streaming"
                       ELSE IF response.content.json THEN "json" ELSE "note: failed to parse"
        result == Result(token, TRUE, <<>>, NoRawError, FALSE, rawResponse)
        withBalance ==
            IF providerMeta.balanceCheck \in balanceCheckers
            THEN LET asked == [afterBody EXCEPT !.requests = Append(@, [url |-> "balance", body |-> {}])]
                     balanceResult == callBalanceChecker(providerMeta.balanceCheck, env.balance)
                 IN  IF balanceResult.thrown THEN catchBlock(asked, token)
                     ELSE Returned(asked,
                                   [result EXCEPT !.balanceSet = TRUE,
                                                  !.balance = balanceResult.balance,
                                                  !.message = balanceResult.message])
            ELSE Returned(afterBody, result)
        error == handleApiError(response)
        failed == Returned(sent, Result(token, FALSE, error.message, error.rawError, TRUE, "undefined"))
    IN  IF response.throws THEN catchBlock(sent, token)
        ELSE IF response.ok
        THEN IF enableStream /\ response.stream = "error" THEN catchBlock(read, token)
             ELSE IF enableStream /\ response.stream = "done"
                  THEN Returned(read, Result(token, FALSE, <<"validation", "failed", "stream", "ended", "prematurely">>,
                                             NoRawError, TRUE, "undefined"))
                  ELSE withBalance
        ELSE IF strategy.onFail
             THEN IF /\ error.rawError.content.error.code = <<"unsupported", "parameter">>
                     /\ error.rawError.content.error.param = <<"max", "tokens">>
                  THEN _checkTokenTemplate(sent, token, [apiStyle |-> "undefined", balanceCheck |-> "undefined"],
                                           providerConfig, env,
                                           [buildRequest |-> [request EXCEPT !.body = retryBody(@)],
                                            onFail |-> FALSE])
                  ELSE failed
             ELSE failed

\* a checkToken whose switch falls back to the OpenAI-compatible checker (a
\* fault the unsupported-provider property must detect)
checkTokenDefaultingToOpenAI(token, providerMeta, providerConfig, env) ==
    _checkTokenTemplate(NoEffects, token, providerMeta, providerConfig, env,
                        apiStrategies("openai"))

\* checkToken: the result of one key and what the call did to the outside
checkToken(token, providerMeta, providerConfig, env) ==
    IF providerMeta.apiStyle \in {"openai", "openai_responses", "anthropic", "gemini"}
    THEN _checkTokenTemplate(NoEffects, token, providerMeta, providerConfig, env,
                             apiStrategies(providerMeta.apiStyle))
    ELSE Returned(NoEffects, Result(token, FALSE, <<"unsupported", "provider", "type">>,
                                    NoRawError, TRUE, "undefined"))

\* ------------------------------------------------------------------------
\* Result classification (frontend api module)
\* ------------------------------------------------------------------------

\* a null result
NullResult == [isNull |-> TRUE]

\* the words of JSON.stringify(rawError) other than the member names, none
\* of which is a keyword of the classification
stringify(rawError) ==
    IF rawError.absent THEN <<>>
    ELSE LET c == rawError.content
         IN  (IF rawError.status = 0 THEN <<>> ELSE <<ToString(rawError.status)>>)
             \o (IF c.json
                 THEN c.error.reason \o c.error.code \o c.error.param \o c.error.type
                      \o c.error.message \o c.code \o c.type \o c.message \o c.errors \o c.detail
                 ELSE c.text)

quotaKeywords ==
    {<<"insufficient">>, <<"credit">>, <<"quota">>, <<"balance">>, <<"billing">>, <<"paid">>,
     <<"top", "up">>}

Category(category, simpleMessage) == [category |-> category, simpleMessage |-> simpleMessage]

\* the chain of tests of categorizeTokenError on an invalid result
classifyError(status, errorCode, errorType, lowerCaseMessage) ==
    IF status = 401 \/ errorCode = <<"invalid", "api", "key">> \/ errorType = <<"invalid", "api", "key">>
    THEN Category("invalid", "API_KEY invalid")
    ELSE IF errorType = <<"access", "terminated">>
    THEN Category("invalid", "account banned or deactivated")
    ELSE IF status = 402
    THEN Category("noQuota", "Payment Required")
    ELSE IF errorCode = <<"insufficient", "quota">> \/ errorType = <<"insufficient", "quota">>
    THEN Category("noQuota", "quota exhausted")
    ELSE IF includes(lowerCaseMessage, <<"doesn't", "have", "a", "free", "quota", "tier">>)
    THEN Category("noQuota", "no free quota tier")
    ELSE IF \E kw \in quotaKeywords : includes(lowerCaseMessage, kw)
    THEN Category("noQuota", "quota or balance insufficient")
    ELSE IF status = 429
    THEN Category("rateLimit", "Rate Limit")
    ELSE IF includes(lowerCaseMessage, <<"location", "is", "not", "supported">>)
    THEN Category("invalid", "region not supported")
    ELSE IF includes(lowerCaseMessage, <<"permissiondenied">>)
    THEN Category("invalid", "API not enabled in project")
    ELSE IF \/ errorCode = <<"model", "not", "found">>
            \/ includes(lowerCaseMessage, <<"model", "is", "not", "supported">>)
    THEN Category("invalid", "model not available")
    ELSE IF status = 403
    THEN Category("invalid", "Forbidden")
    ELSE Category("invalid", "validation failed")

\* a variant of categorizeTokenError whose last branch has a category of its own
categorizeTokenErrorUnknown(res) ==
    IF res = NullResult \/ res.isValid THEN Category("valid", "valid")
    ELSE LET c == classifyError(res.rawError.status, res.rawError.content.error.code,
                                res.rawError.content.error.type, toLowerCase(res.message))
         IN  IF c.simpleMessage = "validation failed" THEN Category("unknown", "validation failed")
             ELSE c

categorizeTokenError(res) ==
    IF res = NullResult \/ res.isValid THEN Category("valid", "valid")
    ELSE LET rawError == res.rawError
             message == res.message
             status == IF rawError.absent THEN 0 ELSE rawError.status
             lowerCaseMessage == toLowerCase(IF message # <<>> THEN message ELSE stringify(rawError))
             errorContent == rawError.content
             errorCode == IF errorContent.error.code # <<>> THEN errorContent.error.code
                          ELSE errorContent.code
             errorType == IF errorContent.error.type # <<>> THEN errorContent.error.type
                          ELSE errorContent.type
         IN  classifyError(status, errorCode, errorType, lowerCaseMessage)

\* ------------------------------------------------------------------------
\* The upstream of a run
\* ------------------------------------------------------------------------

\* what the upstream answers for each key of a run
UpstreamOf(token) ==
    CASE token = 1 ->
            [validation |-> <<Response(TRUE, 200, "chunk", EmptyObject)>>,
             balance |-> [throws |-> FALSE, ok |-> TRUE, body |-> "usable", amount |-> 5]]
      [] token = 2 ->
            [validation |-> <<Response(FALSE, 401, "chunk",
                                       [EmptyObject EXCEPT !.error.code = <<"invalid", "api", "key">>])>>,
             balance |-> [throws |-> FALSE, ok |-> FALSE, body |-> "object", amount |-> 0]]
      [] token = 3 ->
            [validation |-> <<Response(TRUE, 200, "chunk", EmptyObject)>>,
             balance |-> [throws |-> FALSE, ok |-> TRUE, body |-> "usable", amount |-> 0]]
      [] OTHER ->
            [validation |-> <<Response(FALSE, 429, "chunk", EmptyObject)>>,
             balance |-> [throws |-> FALSE, ok |-> FALSE, body |-> "object", amount |-> 0]]

\* checker.checkToken(item.token, this.providerMeta, this.providerConfig, this.env)
\* of a run: the provider is OpenAI-compatible with a balance endpoint
Upstream(token) ==
    checkToken(token, [apiStyle |-> "openai", balanceCheck |-> "checkDeepSeekBalance"],
               [enableStream |-> FALSE], UpstreamOf(token))

\* runCheck spreading the result over the order in place of the order over
\* the result, so that the item's order is lost (a fault the order property
\* must detect)
resultDataLosingOrder(call, item) ==
    [token |-> item.token, order |-> 0, isValid |-> call.result.isValid,
     message |-> call.result.message, rawError |-> call.result.rawError,
     error |-> call.result.error, rawResponse |-> call.result.rawResponse,
     balanceSet |-> call.result.balanceSet, balance |-> call.result.balance]

\* the data runCheck hands to onResult for a checkToken call that returned
\* or, in its catch block, threw
resultData(call, item) ==
    LET result == call.result
    IN  IF call.thrown
        THEN [token |-> item.token, order |-> item.order, isValid |-> FALSE,
              message |-> <<"fetch", "failed">>, rawError |-> NoRawError, error |-> TRUE,
              rawResponse |-> "undefined", balanceSet |-> FALSE, balance |-> 0]
        ELSE [token |-> result.token, order |-> item.order, isValid |-> result.isValid,
              message |-> result.message, rawError |-> result.rawError, error |-> result.error,
              rawResponse |-> result.rawResponse, balanceSet |-> result.balanceSet,
              balance |-> result.balance]

\* TaskManager.runCheck: the result message of one item
runCheck(item) == resultData(Upstream(item.token), item)

NullBatch == [isNull |-> TRUE, batch |-> <<>>, providerConfig |-> "", concurrency |-> 0]

NullQueue == [isNull |-> TRUE, remainingKeys |-> <<>>, providerConfig |-> "", concurrency |-> 0]

\* a WebSocket that no handler can run for any more
ClosedSocket ==
    [readyState |-> "closed", batch |-> <<>>, providerConfig |-> "", concurrency |-> 0,
     onclose |-> FALSE, queue |-> <<>>, currentIndex |-> 0, pools |-> <<>>,
     pending |-> "none"]

EmptyResults == [c \in CategorySet |-> <<>>]

\* ------------------------------------------------------------------------
\* State
\* ------------------------------------------------------------------------

VARIABLES
    \* checker store
    isChecking, isPaused, completedCount, totalTasks, socket, lastStatusMessage,
    reconnectAttempts, currentBatch, jobQueue, resultBuffer, flushTimerId,
    \* config store and results store
    currentProvider, results,
    \* browser: the WebSocket objects created so far (with the backend session
    \* behind each), the pending setTimeout callbacks, the armed flush timer
    sockets, timers, flushArmed,
    \* history: processResult calls per order in the current run, the parsed
    \* input of the current run, whether stopCheck ran since the last start,
    \* whether the user pressed stop since then, and the number of runs started
    delivered, tokensRaw, stopped, userStopped, nRuns,
    \* history: for every pending setTimeout callback, the keys that the
    \* socket whose abnormal close scheduled it was opened with and that had
    \* no result at that close (<<>> for a batch advance)
    interrupted,
    \* history: the items bufferResult was called with since the results
    \* store was last cleared, in the order of the calls
    arrived,
    \* one backend session on its own: the TaskManager, the server side of its
    \* WebSocket, its worker pools, and the number of messages it has received
    taskManager, ws, workerPools, nCommands,
    \* history: the token arrays the start commands assigned to this.queue,
    \* and for each of them how often getNextItem returned each of its items
    batches, claims,
    \* the validator on its own: the last checkToken call with its outcome,
    \* and the classifications made so far
    checked, categorized,
    \* error handling on its own: the response handleApiError was given and
    \* what it returned
    apiError,
    \* the advanced settings panel: configStore.concurrency, the value of the
    \* concurrency input element, and whether a blur listener is registered
    configConcurrency, concurrencyField, blurHandler

storeVars == <<isChecking, isPaused, completedCount, totalTasks, socket, lastStatusMessage,
          reconnectAttempts, currentBatch, jobQueue, resultBuffer, flushTimerId,
          currentProvider, results, sockets, timers, flushArmed,
          delivered, tokensRaw, stopped, userStopped, nRuns, interrupted, arrived>>

sessionVars == <<taskManager, ws, workerPools, nCommands, batches, claims>>

validatorVars == <<checked, categorized>>

errorVars == <<apiError>>

configVars == <<configConcurrency, concurrencyField, blurHandler>>

vars == <<storeVars, sessionVars, validatorVars, configVars, errorVars>>

\* the whole state as one record, so that a handler is a function on it
Store ==
    [isChecking |-> isChecking, isPaused |-> isPaused, completedCount |-> completedCount,
     totalTasks |-> totalTasks, socket |-> socket, lastStatusMessage |-> lastStatusMessage,
     reconnectAttempts |-> reconnectAttempts, currentBatch |-> currentBatch,
     jobQueue |-> jobQueue, resultBuffer |-> resultBuffer, flushTimerId |-> flushTimerId,
     currentProvider |-> currentProvider, results |-> results, sockets |-> sockets,
     timers |-> timers, flushArmed |-> flushArmed, delivered |-> delivered,
     tokensRaw |-> tokensRaw, stopped |-> stopped, userStopped |-> userStopped,
     nRuns |-> nRuns]

Commit(st) ==
    /\ isChecking' = st.isChecking
    /\ isPaused' = st.isPaused
    /\ completedCount' = st.completedCount
    /\ totalTasks' = st.totalTasks
    /\ socket' = st.socket
    /\ lastStatusMessage' = st.lastStatusMessage
    /\ reconnectAttempts' = st.reconnectAttempts
    /\ currentBatch' = st.currentBatch
    /\ jobQueue' = st.jobQueue
    /\ resultBuffer' = st.resultBuffer
    /\ flushTimerId' = st.flushTimerId
    /\ currentProvider' = st.currentProvider
    /\ results' = st.results
    /\ sockets' = st.sockets
    /\ timers' = st.timers
    /\ flushArmed' = st.flushArmed
    /\ delivered' = st.delivered
    /\ tokensRaw' = st.tokensRaw
    /\ stopped' = st.stopped
    /\ userStopped' = st.userStopped
    /\ nRuns' = st.nRuns

\* ------------------------------------------------------------------------
\* Browser WebSocket
\* ------------------------------------------------------------------------

\* a socket on which close() was called and whose onclose was removed can run
\* no handler any more: it is as good as closed
Settle(sock) ==
    IF sock.readyState = "closing" /\ ~sock.onclose THEN ClosedSocket ELSE sock

\* WebSocket.close(1000, reason): starts the closing handshake unless the
\* socket is closing or closed already; no message event is dispatched once
\* readyState has left OPEN, and the backend stops on the close it sees
wsClose(sock) ==
    IF sock.readyState \in {"closing", "closed"} THEN sock
    ELSE [sock EXCEPT !.readyState = "closing", !.queue = <<>>, !.currentIndex = 0,
                      !.pools = <<>>, !.pending = "close1000"]

\* ------------------------------------------------------------------------
\* results store
\* ------------------------------------------------------------------------

\* buildResultItem: null when the category is not one of the store's
buildResultItem(item) ==
    IF item.finalCategory \in CategorySet
    THEN <<[token |-> item.token, order |-> item.order]>>
    ELSE <<>>

RECURSIVE FlattenItems(_)
FlattenItems(items) ==
    IF items = <<>> THEN <<>> ELSE buildResultItem(Head(items)) \o FlattenItems(Tail(items))

\* addResults: group the items by category, append each group to its bucket
addResults(res, items) ==
    [c \in CategorySet |->
        res[c] \o FlattenItems(SelectSeq(items, LAMBDA it : it.finalCategory = c))]

\* the text of a key, and the display text getDisplayText builds from it:
\* the escaped key followed by a span with the status of the key
tokenText(token) ==
    CASE token = 1 -> <<"sk", "Alpha">>
      [] token = 2 -> <<"sk", "beta">>
      [] token = 3 -> <<"SK", "alpha", "3">>
      [] OTHER -> <<"key">>

getDisplayText(item, category) ==
    tokenText(item.token) \o <<"span", "class", "message">>
    \o (IF category = "duplicate" THEN <<"duplicate">> ELSE <<"status">>)

\* Array.prototype.sort with (a, b) => a.order - b.order: a stable sort
RECURSIVE sortByOrder(_)
sortByOrder(items) ==
    IF items = <<>> THEN <<>>
    ELSE LET sortedRest == sortByOrder(Tail(items))
             x == Head(items)
             \* x goes before the first item of the rest with a greater order
             before == SelectSeq(sortedRest, LAMBDA y : y.order < x.order)
             after == SelectSeq(sortedRest, LAMBDA y : y.order >= x.order)
         IN  before \o <<x>> \o after

\* the default branch without its sort (a fault the sorting property must
\* detect)
getSortedResultsUnsorted(res, category, searchTerm) ==
    LET data == res[category]
        term == toLowerCase(searchTerm)
    IN  IF term = <<>> THEN data
        ELSE SelectSeq(data, LAMBDA r :
                 \/ includes(toLowerCase(tokenText(r.token)), term)
                 \/ includes(toLowerCase(getDisplayText(r, category)), term))

\* getSortedResults(category) with the default sort, for the search term of
\* the category
getSortedResults(res, category, searchTerm) ==
    LET data == res[category]
        term == toLowerCase(searchTerm)
        filtered == IF term = <<>> THEN data
                    ELSE SelectSeq(data, LAMBDA r :
                             \/ includes(toLowerCase(tokenText(r.token)), term)
                             \/ includes(toLowerCase(getDisplayText(r, category)), term))
        needsSort == \E i \in 2..Len(data) : data[i].order < data[i - 1].order
    IN  IF term = <<>> /\ Len(data) > 0 /\ ~needsSort THEN filtered
        ELSE sortByOrder(filtered)

\* what the user can have typed into the search box of a category
SearchTerms == {<<>>, <<"Alpha">>, <<"SK">>, <<"message">>, <<"zzz">>}

\* ------------------------------------------------------------------------
\* checker store: private methods
\* ------------------------------------------------------------------------

_postStatus(st, type) == [st EXCEPT !.lastStatusMessage = type]

flushResultBuffer(st) ==
    IF st.resultBuffer = <<>> THEN st
    ELSE [st EXCEPT !.resultBuffer = <<>>,
                    !.flushArmed = IF st.flushTimerId THEN FALSE ELSE st.flushArmed,
                    !.flushTimerId = FALSE,
                    !.results = addResults(st.results, st.resultBuffer)]

\* bufferResult that flushes only above the maximum size (a fault the buffer
\* property must detect)
bufferResultFlushingLate(st, item) ==
    LET pushed == [st EXCEPT !.resultBuffer = Append(st.resultBuffer, item)]
    IN  IF Len(pushed.resultBuffer) > BUFFER_MAX_SIZE THEN flushResultBuffer(pushed)
        ELSE IF ~pushed.flushTimerId
             THEN [pushed EXCEPT !.flushTimerId = TRUE, !.flushArmed = TRUE]
             ELSE pushed

bufferResult(st, item) ==
    LET pushed == [st EXCEPT !.resultBuffer = Append(st.resultBuffer, item)]
    IN  IF Len(pushed.resultBuffer) >= BUFFER_MAX_SIZE THEN flushResultBuffer(pushed)
        ELSE IF ~pushed.flushTimerId
             THEN [pushed EXCEPT !.flushTimerId = TRUE, !.flushArmed = TRUE]
             ELSE pushed

\* a variant of finalCategoryOf that tests the threshold before the zero
finalCategoryOfThresholdFirst(st, res) ==
    IF res.isValid /\ hasBalance(st.currentProvider)
    THEN IF res.balanceSet /\ res.balance < threshold THEN "lowBalance"
         ELSE IF res.balanceSet /\ res.balance = 0 THEN "zeroBalance"
         ELSE "valid"
    ELSE categorizeTokenError(res).category

finalCategoryOf(st, res) ==
    IF res.isValid /\ hasBalance(st.currentProvider)
    THEN IF res.balanceSet /\ res.balance = 0 THEN "zeroBalance"
         ELSE IF res.balanceSet /\ res.balance < threshold THEN "lowBalance"
         ELSE "valid"
    ELSE categorizeTokenError(res).category

processResult(st, res) ==
    LET counted == [st EXCEPT !.completedCount = st.completedCount + 1,
                              !.delivered[res.order + 1] = Min(@ + 1, 2)]
    IN  bufferResult(counted, [token |-> res.token, order |-> res.order,
                               finalCategory |-> finalCategoryOf(st, res)])

finishCheck(st) ==
    LET flushed == flushResultBuffer(st)
    IN  _postStatus([flushed EXCEPT !.isChecking = FALSE, !.jobQueue = NullQueue,
                                    !.currentBatch = NullBatch], "success")

\* new WebSocket(...) and setupSocketListeners: the listeners close over the
\* batch, the provider configuration and the concurrency they were given
_connectWebSocket(st, providerConfig, batch, concurrency) ==
    LET created == [readyState |-> "connecting", batch |-> batch, providerConfig |-> providerConfig,
               concurrency |-> concurrency, onclose |-> TRUE, queue |-> <<>>,
               currentIndex |-> 0, pools |-> <<>>, pending |-> "none"]
    IN  [st EXCEPT !.sockets = Append(st.sockets, created), !.socket = Len(st.sockets) + 1]

\* processNextBatch without its isPaused guard (a fault the pause properties
\* must detect)
processNextBatchUnguarded(st) ==
    LET reset == [st EXCEPT !.reconnectAttempts = 0]
    IN  IF reset.jobQueue.isNull \/ Len(reset.jobQueue.remainingKeys) = 0
        THEN finishCheck(reset)
        ELSE LET keys == reset.jobQueue.remainingKeys
                 batch == SubSeq(keys, 1, Min(BATCH_SIZE, Len(keys)))
                 remaining == SubSeq(keys, Min(BATCH_SIZE, Len(keys)) + 1, Len(keys))
                 tracked == [reset EXCEPT
                               !.currentBatch = [isNull |-> FALSE, batch |-> batch,
                                                 providerConfig |-> reset.jobQueue.providerConfig,
                                                 concurrency |-> reset.jobQueue.concurrency],
                               !.jobQueue.remainingKeys = remaining]
             IN  _connectWebSocket(_postStatus(tracked, "info"),
                                   reset.jobQueue.providerConfig, batch,
                                   reset.jobQueue.concurrency)

processNextBatch(st) ==
    IF st.isPaused THEN st
    ELSE LET reset == [st EXCEPT !.reconnectAttempts = 0]
         IN  IF reset.jobQueue.isNull \/ Len(reset.jobQueue.remainingKeys) = 0
             THEN finishCheck(reset)
             ELSE LET keys == reset.jobQueue.remainingKeys
                      batch == SubSeq(keys, 1, Min(BATCH_SIZE, Len(keys)))
                      remaining == SubSeq(keys, Min(BATCH_SIZE, Len(keys)) + 1, Len(keys))
                      tracked == [reset EXCEPT
                                    !.currentBatch = [isNull |-> FALSE, batch |-> batch,
                                                      providerConfig |-> reset.jobQueue.providerConfig,
                                                      concurrency |-> reset.jobQueue.concurrency],
                                    !.jobQueue.remainingKeys = remaining]
                  IN  _connectWebSocket(_postStatus(tracked, "info"),
                                        reset.jobQueue.providerConfig, batch,
                                        reset.jobQueue.concurrency)

\* ------------------------------------------------------------------------
\* checker store: public actions
\* ------------------------------------------------------------------------

stopCheck(st) ==
    LET flushed == flushResultBuffer(st)
        idle == [flushed EXCEPT !.isChecking = FALSE, !.isPaused = FALSE,
                                !.jobQueue = NullQueue, !.currentBatch = NullBatch,
                                !.stopped = TRUE]
        closed == IF idle.socket # 0
                  THEN [idle EXCEPT
                          !.sockets[idle.socket] =
                              Settle(wsClose([idle.sockets[idle.socket] EXCEPT !.onclose = FALSE])),
                          !.socket = 0]
                  ELSE idle
    IN  _postStatus(closed, "info")

\* pauseCheck with push in place of unshift: the rest of the batch goes behind
\* the queue (a fault the requeue property must detect)
pauseCheckAppending(st) ==
    IF ~st.isChecking \/ st.isPaused THEN st
    ELSE LET flushed == flushResultBuffer(st)
             paused == [flushed EXCEPT !.isPaused = TRUE]
             requeued == IF ~paused.currentBatch.isNull /\ Len(paused.currentBatch.batch) > 0
                            /\ ~paused.jobQueue.isNull
                         THEN [paused EXCEPT !.jobQueue.remainingKeys =
                                                 @ \o paused.currentBatch.batch]
                         ELSE paused
             posted == _postStatus(requeued, "info")
             closed == IF posted.socket # 0
                       THEN [posted EXCEPT
                               !.sockets[posted.socket] =
                                   Settle(wsClose([posted.sockets[posted.socket] EXCEPT !.onclose = FALSE])),
                               !.socket = 0]
                       ELSE posted
         IN  [closed EXCEPT !.currentBatch = NullBatch]

pauseCheck(st) ==
    IF ~st.isChecking \/ st.isPaused THEN st
    ELSE LET flushed == flushResultBuffer(st)
             paused == [flushed EXCEPT !.isPaused = TRUE]
             requeued == IF ~paused.currentBatch.isNull /\ Len(paused.currentBatch.batch) > 0
                            /\ ~paused.jobQueue.isNull
                         THEN [paused EXCEPT !.jobQueue.remainingKeys =
                                                 paused.currentBatch.batch \o @]
                         ELSE paused
             posted == _postStatus(requeued, "info")
             closed == IF posted.socket # 0
                       THEN [posted EXCEPT
                               !.sockets[posted.socket] =
                                   Settle(wsClose([posted.sockets[posted.socket] EXCEPT !.onclose = FALSE])),
                               !.socket = 0]
                       ELSE posted
         IN  [closed EXCEPT !.currentBatch = NullBatch]

resumeCheck(st) ==
    IF ~st.isChecking \/ ~st.isPaused THEN st
    ELSE processNextBatch(_postStatus([st EXCEPT !.isPaused = FALSE], "info"))

\* a duplicate test that looks ahead in place of back: the last occurrence
\* would be kept (a fault the deduplication property must detect)
IsDuplicateOfLater(toks, i) == \E j \in (i + 1)..Len(toks) : toks[j] = toks[i]

\* allKeys.forEach: the first occurrence of a token is kept, a later one is a
\* duplicate result carrying its own order
IsDuplicate(toks, i) == \E j \in 1..(i - 1) : toks[j] = toks[i]

RECURSIVE KeysFrom(_, _)
KeysFrom(toks, i) ==
    IF i > Len(toks) THEN <<>>
    ELSE (IF IsDuplicate(toks, i) THEN <<>> ELSE <<[token |-> toks[i], order |-> i - 1]>>)
         \o KeysFrom(toks, i + 1)

RECURSIVE DuplicatesFrom(_, _)
DuplicatesFrom(toks, i) ==
    IF i > Len(toks) THEN <<>>
    ELSE (IF IsDuplicate(toks, i)
          THEN <<[token |-> toks[i], order |-> i - 1, finalCategory |-> "duplicate"]>>
          ELSE <<>>)
         \o DuplicatesFrom(toks, i + 1)

\* startCheck with >= in place of > in the limit test (a fault the limit
\* property must detect)
startCheckOffByOne(st, fields, concurrency) ==
    IF fields = <<>> THEN _postStatus(st, "warning")
    ELSE LET toks == ParseTokens(fields)
             cleared == [st EXCEPT !.jobQueue = NullQueue, !.results = EmptyResults,
                                   !.completedCount = 0,
                                   !.delivered = [i \in 1..MAX_KEYS_LIMIT |-> 0],
                                   !.tokensRaw = toks, !.stopped = FALSE,
                                   !.userStopped = FALSE]
         IN  IF Len(toks) >= MAX_KEYS_LIMIT THEN _postStatus(cleared, "error")
             ELSE LET keysToProcess == KeysFrom(toks, 1)
                      duplicateResults == DuplicatesFrom(toks, 1)
                      deduped == IF Len(duplicateResults) > 0
                                 THEN _postStatus([cleared EXCEPT !.results =
                                                      addResults(cleared.results, duplicateResults)],
                                                  "info")
                                 ELSE cleared
                  IN  IF Len(keysToProcess) = 0 THEN _postStatus(deduped, "info")
                      ELSE processNextBatch(_postStatus(
                              [deduped EXCEPT !.isChecking = TRUE, !.isPaused = FALSE,
                                              !.totalTasks = Len(keysToProcess),
                                              !.nRuns = st.nRuns + 1,
                                              !.jobQueue = [isNull |-> FALSE,
                                                            remainingKeys |-> keysToProcess,
                                                            providerConfig |-> st.currentProvider,
                                                            concurrency |-> concurrency]],
                              "info"))

startCheck(st, fields, concurrency) ==
    IF fields = <<>> THEN _postStatus(st, "warning")
    ELSE LET toks == ParseTokens(fields)
             cleared == [st EXCEPT !.jobQueue = NullQueue, !.results = EmptyResults,
                                   !.completedCount = 0,
                                   !.delivered = [i \in 1..MAX_KEYS_LIMIT |-> 0],
                                   !.tokensRaw = toks, !.stopped = FALSE,
                                   !.userStopped = FALSE]
         IN  IF Len(toks) > MAX_KEYS_LIMIT THEN _postStatus(cleared, "error")
             ELSE LET keysToProcess == KeysFrom(toks, 1)
                      duplicateResults == DuplicatesFrom(toks, 1)
                      deduped == IF Len(duplicateResults) > 0
                                 THEN _postStatus([cleared EXCEPT !.results =
                                                      addResults(cleared.results, duplicateResults)],
                                                  "info")
                                 ELSE cleared
                  IN  IF Len(keysToProcess) = 0 THEN _postStatus(deduped, "info")
                      ELSE processNextBatch(_postStatus(
                              [deduped EXCEPT !.isChecking = TRUE, !.isPaused = FALSE,
                                              !.totalTasks = Len(keysToProcess),
                                              !.nRuns = st.nRuns + 1,
                                              !.jobQueue = [isNull |-> FALSE,
                                                            remainingKeys |-> keysToProcess,
                                                            providerConfig |-> st.currentProvider,
                                                            concurrency |-> concurrency]],
                              "info"))

\* ------------------------------------------------------------------------
\* Backend session (TaskManager) behind one WebSocket
\* ------------------------------------------------------------------------

\* TaskManager.start and the synchronous part of runWorkerPool: every worker
\* claims its first item through getNextItem before it first awaits
serverStart(sock, data) ==
    IF sock.pending # "none" THEN sock
    ELSE IF data.providerConfig \notin providersData
    THEN [sock EXCEPT !.queue = data.tokens, !.pools = <<>>, !.pending = "error"]
    ELSE LET workers == IF data.concurrency = 0 THEN DefaultConcurrency ELSE data.concurrency
             first == sock.currentIndex
             claimed == IF first >= Len(data.tokens) THEN 0
                        ELSE Min(workers, Len(data.tokens) - first)
         IN  IF claimed = 0
             THEN [sock EXCEPT !.queue = data.tokens, !.pools = <<>>, !.pending = "done"]
             ELSE [sock EXCEPT !.queue = data.tokens,
                               !.currentIndex = first + claimed,
                               !.pools = Append(@, {data.tokens[i] : i \in (first + 1)..(first + claimed)})]

\* a worker whose runCheck resolved has sent its result; back from its yield
\* it takes the next item through getNextItem or ends, and the pool whose last
\* worker ended signals done and closes the connection
serverResult(sock, p, item) ==
    IF sock.currentIndex < Len(sock.queue)
    THEN [sock EXCEPT !.pools[p] = (@ \ {item}) \cup {sock.queue[sock.currentIndex + 1]},
                      !.currentIndex = @ + 1]
    ELSE IF sock.pools[p] = {item}
         THEN [sock EXCEPT !.pools = <<>>, !.pending = "done"]
         ELSE [sock EXCEPT !.pools[p] = @ \ {item}]

\* ------------------------------------------------------------------------
\* setupSocketListeners: the handlers of one WebSocket
\* ------------------------------------------------------------------------

\* onopen: the start command goes out on socket.value, whichever socket opened
onopen(st, s) ==
    LET opened == [st EXCEPT !.sockets[s].readyState = "open"]
        target == opened.socket
        data == [tokens |-> opened.sockets[s].batch,
                 providerConfig |-> opened.sockets[s].providerConfig,
                 concurrency |-> opened.sockets[s].concurrency]
    IN  IF target = 0 THEN opened
        ELSE IF opened.sockets[target].readyState = "open"
             THEN [opened EXCEPT !.sockets[target] = serverStart(@, data)]
             ELSE opened

onmessageResult(st, data) ==
    LET processed == processResult(st, data)
    IN  IF ~processed.currentBatch.isNull
        THEN [processed EXCEPT !.currentBatch.batch =
                                   SelectSeq(@, LAMBDA k : k.order # data.order)]
        ELSE processed

onmessageDone(st) ==
    LET cleared == [st EXCEPT !.currentBatch = NullBatch]
    IN  IF cleared.socket = 0 THEN cleared
        ELSE [cleared EXCEPT !.sockets[cleared.socket] = wsClose(@),
                             !.timers = Append(@, 0)]

onmessageError(st) == stopCheck(_postStatus(st, "error"))

onclose(st, code) ==
    IF code # 1000 /\ st.isChecking /\ ~st.isPaused
    THEN IF st.reconnectAttempts < MAX_RECONNECT_ATTEMPTS /\ ~st.currentBatch.isNull
            /\ Len(st.currentBatch.batch) > 0
         THEN _postStatus([st EXCEPT !.reconnectAttempts = @ + 1,
                                     !.timers = Append(@, st.reconnectAttempts + 1)],
                          "warning")
         ELSE stopCheck(_postStatus(st, "error"))
    ELSE st

\* the reconnect callback of onclose
reconnectTimer(st) ==
    IF st.isChecking /\ ~st.isPaused /\ ~st.currentBatch.isNull
    THEN _connectWebSocket(st, st.currentBatch.providerConfig, st.currentBatch.batch,
                           st.currentBatch.concurrency)
    ELSE st

\* ------------------------------------------------------------------------
\* Backend session on its own: handleWebSocketSession and TaskManager
\* ------------------------------------------------------------------------

\* the items a start command can carry: tokens is a prefix of these
SessionItems == [i \in 1..MaxItems |-> [token |-> i, order |-> i - 1]]

\* providersData.default[key]: a property lookup on an ordinary object, so a
\* key that names a property of Object.prototype finds the inherited value
providerLookup(key) ==
    IF key \in providersData THEN "meta"
    ELSE IF key \in {"toString", "constructor"} THEN "inherited"
    ELSE "undefined"

\* message.data of a start command
StartPayloads ==
    {[hasData |-> FALSE, tokens |-> [type |-> "undefined", items |-> <<>>],
      providerConfig |-> [type |-> "undefined", provider |-> ""], concurrency |-> 0]}
    \cup
    [hasData : {TRUE},
     tokens : {[type |-> "undefined", items |-> <<>>], [type |-> "string", items |-> <<>>]}
              \cup {[type |-> "array", items |-> SubSeq(SessionItems, 1, n)] : n \in 0..MaxItems},
     providerConfig : {[type |-> "undefined", provider |-> ""]}
                      \cup {[type |-> "object", provider |-> k] : k \in {"openai", "unknown", "toString"}},
     concurrency : 0..MaxConcurrency]

Message(type, order, message) == [type |-> type, order |-> order, message |-> message]

\* the session as one record, so that a method is a function on it
Session ==
    [taskManager |-> taskManager, ws |-> ws, workerPools |-> workerPools,
     nCommands |-> nCommands]

CommitSession(ss) ==
    /\ taskManager' = ss.taskManager
    /\ ws' = ss.ws
    /\ workerPools' = ss.workerPools
    /\ nCommands' = ss.nCommands

\* new TaskManager(...) behind an accepted WebSocket
SessionInit ==
    /\ taskManager = [queue |-> <<>>, currentIndex |-> 0, isStopped |-> FALSE,
                      concurrency |-> DefaultConcurrency, providerMeta |-> "null"]
    /\ ws = [readyState |-> "open", closeCode |-> 0, sent |-> <<>>]
    /\ workerPools = <<>>
    /\ nCommands = 0
    /\ batches = <<>>
    /\ claims = <<>>

\* a send that still delivers after close() (a fault the stop properties must
\* detect)
sendOkAfterClose(ss) == TRUE

\* ws.send: throws once close() has been called or the connection is gone
sendOk(ss) == ss.ws.readyState = "open"

\* a send that ends the connection (a fault the error-handling property must
\* detect)
wsSendThenClose(ss, msg) ==
    IF sendOk(ss)
    THEN [ss EXCEPT !.ws.sent = Append(@, msg), !.ws.readyState = "closing",
                    !.ws.closeCode = 1011]
    ELSE ss

wsSend(ss, msg) == IF sendOk(ss) THEN [ss EXCEPT !.ws.sent = Append(@, msg)] ELSE ss

\* ws.close(code) on the server side of an open connection
wsServerClose(ss, code) ==
    IF ss.ws.readyState = "open"
    THEN [ss EXCEPT !.ws.readyState = "closing", !.ws.closeCode = code]
    ELSE ss

\* the callbacks handleWebSocketSession gives the TaskManager; when send throws
\* the statements after it do not run
onResult(ss, item) == wsSend(ss, Message("result", item.order, ""))

onError(ss, message) ==
    IF sendOk(ss) THEN wsServerClose(wsSend(ss, Message("error", -1, message)), 1011) ELSE ss

\* onDone that sends done and forgets to close (a fault the close property must
\* detect)
onDoneLeavingOpen(ss) == wsSend(ss, Message("done", -1, ""))

onDone(ss) ==
    IF sendOk(ss) THEN wsServerClose(wsSend(ss, Message("done", -1, "")), 1000) ELSE ss

\* TaskManager.stop
stop(ss) == [ss EXCEPT !.taskManager.isStopped = TRUE]

\* the end of runWorkerPool: after Promise.all resolved
poolResolved(ss) == IF ~ss.taskManager.isStopped THEN onDone(ss) ELSE ss

\* runWorkerPool up to its await: every worker runs to its first await, which
\* is inside runCheck, after it claimed an item through getNextItem; a worker
\* that finds the stop flag set or the queue exhausted has ended
runWorkerPool(ss) ==
    LET tm == ss.taskManager
        left == Len(tm.queue) - tm.currentIndex
        claimed == IF tm.isStopped \/ left <= 0 THEN 0 ELSE Min(tm.concurrency, left)
        pool == [active |-> {[item |-> tm.queue[i], phase |-> "checking"] :
                                i \in (tm.currentIndex + 1)..(tm.currentIndex + claimed)},
                 outcome |-> IF claimed = 0 THEN "resolved" ELSE "pending"]
        begun == [ss EXCEPT !.taskManager.currentIndex = @ + claimed,
                            !.workerPools = Append(@, pool)]
    IN  IF claimed = 0 THEN poolResolved(begun) ELSE begun

\* TaskManager.start; destructuring a missing data object throws
startThrows(ss, data) ==
    \/ ~data.hasData
    \/ /\ \/ data.tokens.type # "array"
          \/ data.providerConfig.type = "undefined"
          \/ providerLookup(data.providerConfig.provider) = "undefined"
       /\ ~sendOk(ss)

start(ss, data) ==
    IF ~data.hasData THEN ss
    ELSE IF data.tokens.type # "array" \/ data.providerConfig.type = "undefined"
    THEN onError(ss, "Invalid initial data for a batch")
    ELSE LET set == [ss EXCEPT !.taskManager.queue = data.tokens.items,
                               !.taskManager.concurrency =
                                   IF data.concurrency = 0 THEN DefaultConcurrency
                                   ELSE data.concurrency,
                               !.taskManager.providerMeta =
                                   providerLookup(data.providerConfig.provider)]
         IN  IF set.taskManager.providerMeta = "undefined"
             THEN onError(set, "Provider not found")
             ELSE runWorkerPool(set)

\* the message listener: a command, or the catch block when handling it throws
onSessionMessage(ss, command, data) ==
    LET counted == [ss EXCEPT !.nCommands = @ + 1]
        caught(after) == wsSend(after, Message("error", -1, "Invalid JSON message"))
    IN  CASE command = "start" ->
                 IF startThrows(counted, data) THEN caught(start(counted, data))
                 ELSE start(counted, data)
          [] command = "stop" ->
                 wsServerClose(stop(counted), 1000)
          [] command = "invalid json" -> caught(counted)
          [] OTHER ->
                 wsSend(counted, Message("error", -1, "Unknown command for this session"))

\* a worker's checkToken settled: runCheck calls onResult, in its catch block
\* a second time when the first call threw; when that throws too the worker
\* rejects and with it the Promise.all of its pool
checkSettled(ss, p, w) ==
    IF sendOk(ss)
    THEN [onResult(ss, w.item) EXCEPT
              !.workerPools[p].active = (@ \ {w}) \cup {[item |-> w.item, phase |-> "yield"]}]
    ELSE [ss EXCEPT !.workerPools[p].active = @ \ {w},
                    !.workerPools[p].outcome = IF @ = "pending" THEN "rejected" ELSE @]

\* a worker loop without the test of the stop flag (a fault the stop
\* properties must detect)
workerLoopIgnoringStop(ss, p, w) ==
    LET tm == ss.taskManager
    IN  IF tm.currentIndex < Len(tm.queue)
        THEN [ss EXCEPT !.taskManager.currentIndex = @ + 1,
                        !.workerPools[p].active =
                            (@ \ {w}) \cup {[item |-> tm.queue[tm.currentIndex + 1],
                                             phase |-> "checking"]}]
        ELSE [ss EXCEPT !.workerPools[p].active = @ \ {w}]

\* a worker back from its setTimeout(0): the next turn of its loop
workerLoop(ss, p, w) ==
    LET tm == ss.taskManager
    IN  IF ~tm.isStopped /\ tm.currentIndex < Len(tm.queue)
        THEN [ss EXCEPT !.taskManager.currentIndex = @ + 1,
                        !.workerPools[p].active =
                            (@ \ {w}) \cup {[item |-> tm.queue[tm.currentIndex + 1],
                                             phase |-> "checking"]}]
        ELSE LET ended == [ss EXCEPT !.workerPools[p].active = @ \ {w}]
             IN  IF ended.workerPools[p].active = {} /\ ended.workerPools[p].outcome = "pending"
                 THEN poolResolved([ended EXCEPT !.workerPools[p].outcome = "resolved"])
                 ELSE ended

\* closeOrErrorHandler: the close or error event of the connection
closeOrErrorHandler(ss) == [stop(ss) EXCEPT !.ws.readyState = "closed"]

\* ------------------------------------------------------------------------
\* The concurrency setting (advanced settings panel and config store)
\* ------------------------------------------------------------------------

\* what the user can leave in the concurrency field
TypedTexts == {"", "abc", "0", "-3", "1", "7", "20", "21", "999", "3.7"}

NotANumber == [nan |-> TRUE, n |-> 0]

Number(n) == [nan |-> FALSE, n |-> n]

\* parseInt(text, 10)
parseInt(text) ==
    CASE text = "0" -> Number(0)
      [] text = "-3" -> Number(-3)
      [] text = "1" -> Number(1)
      [] text = "7" -> Number(7)
      [] text = "20" -> Number(20)
      [] text = "21" -> Number(21)
      [] text = "999" -> Number(999)
      [] text = "3.7" -> Number(3)
      [] OTHER -> NotANumber

\* the value of the input element: the text the user typed, or the number
\* the :value binding rendered into it
Typed(text) == [typed |-> TRUE, text |-> text, n |-> 0]

Rendered(n) == [typed |-> FALSE, text |-> "", n |-> n]

\* parseInt(event.target.value, 10)
fieldInt(field) == IF field.typed THEN parseInt(field.text) ELSE Number(field.n)

\* the settings as one record
Config ==
    [concurrency |-> configConcurrency, field |-> concurrencyField, blurHandler |-> blurHandler]

CommitConfig(cfg) ==
    /\ configConcurrency' = cfg.concurrency
    /\ concurrencyField' = cfg.field
    /\ blurHandler' = cfg.blurHandler

ConfigInit ==
    /\ configConcurrency = InitialConcurrency
    /\ concurrencyField = Rendered(InitialConcurrency)
    /\ blurHandler = FALSE

\* a variant of handleConcurrencyInput without the upper limit
handleConcurrencyInputUnlimited(cfg, text) ==
    LET value == parseInt(text)
        typed == [cfg EXCEPT !.field = Typed(text)]
    IN  IF value.nan THEN typed
        ELSE [typed EXCEPT !.blurHandler = TRUE,
                           !.concurrency = IF value.n < CONCURRENCY_MIN THEN CONCURRENCY_MIN
                                           ELSE value.n]

\* handleConcurrencyInput, run for the input event of the text just typed
handleConcurrencyInput(cfg, text) ==
    LET value == parseInt(text)
        typed == [cfg EXCEPT !.field = Typed(text)]
    IN  IF value.nan THEN typed
        ELSE [typed EXCEPT !.blurHandler = TRUE,
                           !.concurrency = IF value.n < CONCURRENCY_MIN THEN CONCURRENCY_MIN
                                           ELSE IF value.n > CONCURRENCY_MAX THEN CONCURRENCY_MAX
                                           ELSE value.n]

\* currentBlurHandler, registered with { once: true }
currentBlurHandler(cfg) ==
    LET value == fieldInt(cfg.field)
        removed == [cfg EXCEPT !.blurHandler = FALSE]
    IN  IF (cfg.field.typed /\ cfg.field.text = "") \/ (~value.nan /\ value.n < 1)
        THEN [removed EXCEPT !.concurrency = 1]
        ELSE removed

\* ------------------------------------------------------------------------
\* Actions
\* ------------------------------------------------------------------------

Init ==
    /\ SessionInit
    /\ ConfigInit
    /\ apiError = [n |-> 0]
    /\ checked = [n |-> 0]
    /\ categorized = <<>>
    /\ isChecking = FALSE
    /\ isPaused = FALSE
    /\ completedCount = 0
    /\ totalTasks = 0
    /\ socket = 0
    /\ lastStatusMessage = "none"
    /\ reconnectAttempts = 0
    /\ currentBatch = NullBatch
    /\ jobQueue = NullQueue
    /\ resultBuffer = <<>>
    /\ flushTimerId = FALSE
    /\ currentProvider = "openai"
    /\ results = EmptyResults
    /\ sockets = <<>>
    /\ timers = <<>>
    /\ flushArmed = FALSE
    /\ delivered = [i \in 1..MAX_KEYS_LIMIT |-> 0]
    /\ tokensRaw = <<>>
    /\ stopped = FALSE
    /\ userStopped = FALSE
    /\ nRuns = 0
    /\ interrupted = <<>>
    /\ arrived = <<>>

\* the keys of a batch that have no result yet
Unreceived(batch) == SelectSeq(batch, LAMBDA k : delivered[k.order + 1] = 0)

\* the history of the pending callbacks after a handler that may have
\* scheduled one: a reconnect is scheduled by the onclose handler of the
\* socket that this step closes
Scheduled(new) ==
    IF Len(new.timers) > Len(timers)
    THEN Append(interrupted,
                IF new.timers[Len(new.timers)] = 0 THEN <<>>
                ELSE Unreceived(sockets[CHOOSE s \in DOMAIN sockets :
                                            /\ sockets[s].readyState # "closed"
                                            /\ new.sockets[s].readyState = "closed"].batch))
    ELSE interrupted

\* a step to the state a handler returns, within the bounds of the model
StepRecording(new, history, arrivals) ==
    /\ Len(new.sockets) <= MaxSockets
    /\ new.nRuns <= MaxRuns
    /\ Commit(new)
    /\ interrupted' = history
    /\ arrived' = arrivals
    /\ UNCHANGED <<sessionVars, validatorVars, configVars, errorVars>>

StepKeeping(new, history) == StepRecording(new, history, arrived)

Step(new) == StepKeeping(new, Scheduled(new))

\* the start button, shown while no check is running, pressed with the
\* settings the user has chosen: provider, key text and concurrency
StartCheck(key, fields, concurrency) ==
    /\ ~isChecking
    /\ nRuns < MaxRuns
    /\ LET new == startCheck([Store EXCEPT !.currentProvider = key], fields, concurrency)
       IN  \* clearResults empties the store; what is still buffered is kept
           StepRecording(new, Scheduled(new),
                         IF fields = <<>> THEN arrived ELSE new.resultBuffer)

\* the stop button, shown while a check is running
StopCheck ==
    /\ isChecking
    /\ Step([stopCheck(Store) EXCEPT !.userStopped = TRUE])

PauseCheck == Step(pauseCheck(Store))

ResumeCheck == Step(resumeCheck(Store))

\* the connection of socket s is established
SocketOpen(s) ==
    /\ sockets[s].readyState = "connecting"
    /\ Step(onopen(Store, s))

\* the backend behind socket s sends the result of an item in flight
WorkerResult(s, p, item) ==
    /\ sockets[s].readyState = "open"
    /\ sockets[s].pending = "none"
    /\ item \in sockets[s].pools[p]
    /\ LET res == runCheck(item)
           new == onmessageResult([Store EXCEPT !.sockets[s] = serverResult(@, p, item)], res)
       IN  StepRecording(new, Scheduled(new),
                         Append(arrived, [token |-> res.token, order |-> res.order,
                                          finalCategory |-> finalCategoryOf(Store, res)]))

\* the done message of socket s arrives; the backend has closed with 1000
OnMessageDone(s) ==
    /\ sockets[s].readyState = "open"
    /\ sockets[s].pending = "done"
    /\ LET handled == onmessageDone(Store)
       IN  Step([handled EXCEPT !.sockets[s] =
                    IF @.readyState = "open"
                    THEN [@ EXCEPT !.readyState = "closing", !.pending = "close1000"]
                    ELSE @])

\* the error message of socket s arrives; the backend has closed with 1011
OnMessageError(s) ==
    /\ sockets[s].readyState = "open"
    /\ sockets[s].pending = "error"
    /\ LET handled == onmessageError(Store)
       IN  Step([handled EXCEPT !.sockets[s] =
                    IF @.readyState = "open"
                    THEN [@ EXCEPT !.readyState = "closing", !.pending = "close1011",
                                   !.queue = <<>>]
                    ELSE @])

\* the close event of a socket in its closing handshake, with the code of the
\* backend's close frame
CloseEvent(s) ==
    /\ sockets[s].readyState = "closing"
    /\ LET code == IF sockets[s].pending = "close1011" THEN 1011 ELSE 1000
           gone == [Store EXCEPT !.sockets[s] = ClosedSocket]
       IN  Step(IF sockets[s].onclose THEN onclose(gone, code) ELSE gone)

\* the connection of socket s is lost: a close event with code 1006
ConnectionLost(s) ==
    /\ sockets[s].readyState \in {"connecting", "open", "closing"}
    /\ LET gone == [Store EXCEPT !.sockets[s] = ClosedSocket]
       IN  Step(IF sockets[s].onclose THEN onclose(gone, 1006) ELSE gone)

\* timers[i] is the delay class of a pending setTimeout callback: 0 for the
\* 100 ms batch advance, n for the n-second reconnect; a callback runs before
\* every callback that was scheduled later with a delay at least as long
TimerFire(i) ==
    /\ \A j \in 1..(i - 1) : timers[j] > timers[i]
    /\ LET rest == [Store EXCEPT !.timers = SubSeq(timers, 1, i - 1) \o SubSeq(timers, i + 1, Len(timers))]
       IN  StepKeeping(IF timers[i] = 0 THEN processNextBatch(rest) ELSE reconnectTimer(rest),
                       SubSeq(interrupted, 1, i - 1) \o SubSeq(interrupted, i + 1, Len(interrupted)))

\* the 100 ms flush timer of bufferResult
FlushTimerFire ==
    /\ flushArmed
    /\ Step(flushResultBuffer([Store EXCEPT !.flushArmed = FALSE]))

Next ==
    \/ \E key \in ProviderKeys, fields \in InputSet, concurrency \in 1..MaxConcurrency :
           StartCheck(key, fields, concurrency)
    \/ StopCheck
    \/ PauseCheck
    \/ ResumeCheck
    \/ \E s \in 1..Len(sockets) : SocketOpen(s)
    \/ \E s \in 1..Len(sockets) : \E p \in 1..Len(sockets[s].pools) :
           \E item \in sockets[s].pools[p] : WorkerResult(s, p, item)
    \/ \E s \in 1..Len(sockets) : OnMessageDone(s)
    \/ \E s \in 1..Len(sockets) : OnMessageError(s)
    \/ \E s \in 1..Len(sockets) : CloseEvent(s)
    \/ \E s \in 1..Len(sockets) : ConnectionLost(s)
    \/ \E i \in 1..Len(timers) : TimerFire(i)
    \/ FlushTimerFire

Spec == Init /\ [][Next]_vars

\* ------------------------------------------------------------------------
\* Actions of the backend session on its own
\* ------------------------------------------------------------------------

\* start reaches its assignment this.queue = tokens
assignsQueue(data) ==
    data.hasData /\ data.tokens.type = "array" /\ data.providerConfig.type # "undefined"

\* a step of the session; the items getNextItem returned in it are those
\* between the old and the new currentIndex of the queue it leaves assigned
SessionStepAssigning(new, assigned) ==
    /\ new.nCommands <= MaxCommands
    /\ CommitSession(new)
    /\ batches' = IF assigned THEN Append(batches, new.taskManager.queue) ELSE batches
    /\ LET counts == IF assigned
                     THEN Append(claims, [i \in 1..Len(new.taskManager.queue) |-> 0])
                     ELSE claims
           taken == (taskManager.currentIndex + 1)..new.taskManager.currentIndex
       IN  claims' = IF taken = {} THEN counts
                      ELSE [counts EXCEPT ![Len(counts)] =
                               [i \in DOMAIN @ |-> IF i \in taken THEN @[i] + 1 ELSE @[i]]]
    /\ UNCHANGED <<storeVars, validatorVars, configVars, errorVars>>

SessionStep(new) == SessionStepAssigning(new, FALSE)

\* a message arrives while the connection can still deliver one
ReceiveStart(data) ==
    /\ ws.readyState # "closed"
    /\ SessionStepAssigning(onSessionMessage(Session, "start", data), assignsQueue(data))

ReceiveStop ==
    /\ ws.readyState # "closed"
    /\ SessionStep(onSessionMessage(Session, "stop", <<>>))

ReceiveOther(command) ==
    /\ ws.readyState # "closed"
    /\ SessionStep(onSessionMessage(Session, command, <<>>))

CheckSettled(p, w) ==
    /\ w.phase = "checking"
    /\ SessionStep(checkSettled(Session, p, w))

WorkerLoop(p, w) ==
    /\ w.phase = "yield"
    /\ SessionStep(workerLoop(Session, p, w))

ConnectionClosed ==
    /\ ws.readyState # "closed"
    /\ SessionStep(closeOrErrorHandler(Session))

SessionNext ==
    \/ \E data \in StartPayloads : ReceiveStart(data)
    \/ ReceiveStop
    \/ \E command \in {"invalid json", "unknown"} : ReceiveOther(command)
    \/ \E p \in 1..Len(workerPools) : \E w \in workerPools[p].active : CheckSettled(p, w)
    \/ \E p \in 1..Len(workerPools) : \E w \in workerPools[p].active : WorkerLoop(p, w)
    \/ ConnectionClosed

SessionSpec == Init /\ [][SessionNext]_vars

\* ------------------------------------------------------------------------
\* The validator on its own: one checkToken call against every upstream,
\* and the classification of results
\* ------------------------------------------------------------------------

ApiStyles == {"openai", "openai_responses", "anthropic", "gemini", "undefined"}

\* provider metadata: the API style and the name of the balance adapter,
\* absent or not a key of balanceCheckers for some providers
ProviderMetas ==
    [apiStyle : ApiStyles, balanceCheck : balanceCheckers \cup {"undefined", "checkMissing"}]

ProviderConfigs == [enableStream : BOOLEAN]

\* the upstream of one call: the answers to the validation request and to
\* its retry, and the answer of the balance endpoint
Envs ==
    {[validation |-> <<first, retry>>, balance |-> b] :
        first \in Responses, retry \in RetryResponses, b \in BalanceResponses}

\* the status, body and message combinations of the results classified
ClassifiedContents ==
    ErrorContents
    \cup {[EmptyObject EXCEPT !.type = <<"access", "terminated">>],
          [EmptyObject EXCEPT !.code = <<"model", "not", "found">>],
          [EmptyObject EXCEPT !.error.type = <<"invalid", "api", "key">>],
          [EmptyObject EXCEPT !.code = <<"insufficient", "quota">>]}

ClassifiedMessages ==
    {<<>>, <<"Incorrect", "API", "key">>, <<"Billing", "hard", "limit">>, <<"Please", "top", "up">>,
     <<"doesn't", "have", "a", "free", "Quota", "tier">>,
     <<"User", "Location", "is", "not", "supported">>, <<"PermissionDenied">>,
     <<"model", "is", "not", "supported">>, <<"HTTP", "500">>}

CategorizeInputs ==
    {NullResult, Result(1, TRUE, <<>>, NoRawError, FALSE, "json")}
    \cup {Result(1, FALSE, m, re, TRUE, "undefined") :
            m \in ClassifiedMessages,
            re \in {NoRawError}
                   \cup {[absent |-> FALSE, status |-> s, content |-> EmptyObject] :
                            s \in {0, 400, 401, 402, 403, 429}}
                   \cup {[absent |-> FALSE, status |-> 400, content |-> c] :
                            c \in ClassifiedContents}}

\* the backend checks one key, against any provider and any upstream
CheckToken ==
    /\ checked.n = 0
    /\ categorized = <<>>
    /\ \E token \in {1, 2} : \E providerMeta \in ProviderMetas :
       \E providerConfig \in ProviderConfigs : \E env \in Envs :
           checked' = [n |-> 1, token |-> token, providerMeta |-> providerMeta,
                       providerConfig |-> providerConfig, env |-> env,
                       call |-> checkToken(token, providerMeta, providerConfig, env)]
    /\ UNCHANGED <<categorized, storeVars, sessionVars, configVars, errorVars>>

\* processResult classifies the result message of the key checked, for the
\* provider chosen in the config store
ProcessChecked ==
    /\ checked.n = 1
    /\ categorized = <<>>
    /\ \E provider \in {"openai", "deepseek"} :
       LET res == resultData(checked.call, [token |-> checked.token, order |-> 0])
       IN  categorized' = <<[res |-> res, category |-> categorizeTokenError(res).category,
                            provider |-> provider,
                            finalCategory |-> finalCategoryOf([currentProvider |-> provider], res)]>>
    /\ UNCHANGED <<checked, storeVars, sessionVars, configVars, errorVars>>

\* categorizeTokenError is called with a result, and once more with any result
Categorize ==
    /\ checked.n = 0
    /\ Len(categorized) < MaxCategorized
    /\ \E res \in CategorizeInputs :
           categorized' = Append(categorized,
                                 [res |-> res, category |-> categorizeTokenError(res).category])
    /\ UNCHANGED <<checked, storeVars, sessionVars, configVars, errorVars>>

ValidatorNext ==
    \/ CheckToken
    \/ ProcessChecked
    \/ Categorize

ValidatorSpec == Init /\ [][ValidatorNext]_vars

\* ------------------------------------------------------------------------
\* The concurrency setting on its own, up to the start command of a run
\* ------------------------------------------------------------------------

ConfigStep(cfg) ==
    /\ CommitConfig(cfg)
    /\ UNCHANGED <<storeVars, sessionVars, validatorVars, errorVars>>

\* the user edits the concurrency field: an input event with the new text
ConcurrencyInput(text) ==
    /\ text \in TypedTexts
    /\ ConfigStep(handleConcurrencyInput(Config, text))

\* the field loses the focus while a blur listener is registered
Blur ==
    /\ blurHandler
    /\ ConfigStep(currentBlurHandler(Config))

\* Vue patches the element: its value becomes configStore.concurrency
Render ==
    /\ concurrencyField # Rendered(configConcurrency)
    /\ ConfigStep([Config EXCEPT !.field = Rendered(configConcurrency)])

\* the start button, pressed with the concurrency the config store holds
ConfiguredStart(fields) ==
    /\ configConcurrency \in Nat
    /\ StartCheck("openai", fields, configConcurrency)

ConfigNext ==
    \/ \E text \in TypedTexts : ConcurrencyInput(text)
    \/ Blur
    \/ Render
    \/ \E fields \in {<<1>>, <<1, 2>>} : ConfiguredStart(fields)
    \/ \E s \in 1..Len(sockets) : SocketOpen(s)

ConfigSpec == Init /\ [][ConfigNext]_vars

\* ------------------------------------------------------------------------
\* The error handling on its own: handleApiError on every kind of error body
\* ------------------------------------------------------------------------

\* the bodies of non-2xx responses: every combination of the members
\* handleApiError reads being absent or present, error.code numeric or not,
\* detail a text or an object; and a body that is not JSON
ApiErrorBodies ==
    {[EmptyObject EXCEPT !.error.reason = reason, !.error.code = code,
                         !.error.message = errorMessage, !.message = topLevelMessage,
                         !.errors = errors, !.detail = detail[1],
                         !.detailIsObject = detail[2]] :
        reason \in {<<>>, <<"API", "KEY", "INVALID">>},
        code \in {<<>>, <<"401">>, <<"invalid", "api", "key">>},
        errorMessage \in {<<>>, <<"Incorrect", "API", "key">>},
        topLevelMessage \in {<<>>, <<"Unauthorized">>},
        errors \in {<<>>, <<"quota", "exceeded">>},
        detail \in {<< <<>>, FALSE >>, << <<"Not", "found">>, FALSE >>,
                    << <<"Not", "found">>, TRUE >>}}
    \cup {TextContent(<<"Bad", "Gateway">>)}

ApiErrorStatuses == {400, 401, 429, 500}

\* handleApiError is given a non-2xx response
HandleApiError ==
    /\ apiError.n = 0
    /\ \E status \in ApiErrorStatuses : \E content \in ApiErrorBodies :
           LET response == Response(FALSE, status, "chunk", content)
           IN  apiError' = [n |-> 1, response |-> response, error |-> handleApiError(response)]
    /\ UNCHANGED <<storeVars, sessionVars, validatorVars, configVars>>

ErrorNext == HandleApiError

ErrorSpec == Init /\ [][ErrorNext]_vars

\* ------------------------------------------------------------------------
\* Observations used by the properties
\* ------------------------------------------------------------------------

\* keys in strictly ascending order of their position in the input
Ascending(keys) == \A i \in 1..(Len(keys) - 1) : keys[i].order < keys[i + 1].order

\* WebSocket objects that are connecting or open
OpenSessions == {s \in 1..Len(sockets) : sockets[s].readyState \in {"connecting", "open"}}

RECURSIVE StoredUpTo(_)
StoredUpTo(i) == IF i = 0 THEN 0 ELSE Len(results[CATEGORIES[i]]) + StoredUpTo(i - 1)

\* the number of results held by the results store over all categories
TotalStored == StoredUpTo(Len(CATEGORIES))

\* this step is the onclose handler of socket s running for an abnormal close
AbnormalClose(s) ==
    /\ sockets[s].onclose
    /\ \/ ConnectionLost(s)
       \/ sockets[s].pending = "close1011" /\ CloseEvent(s)

\* this step is pauseCheck taking effect
PauseStep == isChecking /\ ~isPaused /\ isPaused'

\* this step is finishCheck ending a running check
FinishStep == isChecking /\ ~isChecking' /\ lastStatusMessage' = "success"

\* this step is stopCheck running for the first time since the last start
StopStep == ~stopped /\ stopped'

\* ------------------------------------------------------------------------
\* Properties
\* ------------------------------------------------------------------------

\* C1: within one run no order is handed to processResult more than once,
\* whatever the interleaving of results, done messages, pauses, resumes,
\* closes and pending timers.
NoOrderDeliveredTwice == \A i \in DOMAIN delivered : delivered[i] <= 1

\* C2: a run that the user did not stop, on a provider the backend knows, with
\* no more connection losses than the reconnect limit allows, ends only by
\* finishCheck and with a result for every non-duplicate credential.
RunDeliversEveryCredential ==
    (/\ nRuns > 0
     /\ ~isChecking
     /\ ~userStopped
     /\ currentProvider \in providersData
     /\ Len(sockets) <= MAX_RECONNECT_ATTEMPTS)
    => /\ \A i \in 1..Len(tokensRaw) : ~IsDuplicate(tokensRaw, i) => delivered[i] >= 1
       /\ lastStatusMessage = "success"

\* C3: at most one session is connecting or open at any time, so at most one
\* batch is in flight.
AtMostOneOpenSession == Cardinality(OpenSessions) <= 1

\* C4: while a run lasts completedCount never decreases, and it never exceeds
\* totalTasks.
CompletedCountWithinTotal ==
    [][/\ isChecking /\ isChecking' => completedCount' >= completedCount
       /\ isChecking' => completedCount' <= totalTasks']_vars

\* C5: when finishCheck ends a running check, the results stored over the seven
\* categories (duplicates included) are as many as the tokens parsed from the
\* input, and completedCount equals totalTasks.
CompletionAccountsForEveryToken ==
    [][FinishStep => /\ TotalStored' = Len(tokensRaw')
                     /\ completedCount' = totalTasks']_vars

\* C6: reconnectAttempts never exceeds MAX_RECONNECT_ATTEMPTS; an abnormal close
\* that finds the limit used up opens no session, schedules no reconnection and
\* leaves the run aborted (isChecking false) with an error status; the counter
\* goes down only when processNextBatch starts a batch or ends the run.
ReconnectLimitAbortsWithError ==
    [][/\ reconnectAttempts' <= MAX_RECONNECT_ATTEMPTS
       /\ \A s \in 1..Len(sockets) :
            (/\ AbnormalClose(s)
             /\ isChecking /\ ~isPaused
             /\ reconnectAttempts >= MAX_RECONNECT_ATTEMPTS)
            => /\ ~isChecking'
               /\ timers' = timers
               /\ Len(sockets') = Len(sockets)
               /\ lastStatusMessage' = "error"
       /\ reconnectAttempts' < reconnectAttempts
            => \/ ~currentBatch'.isNull /\ Len(sockets') = Len(sockets) + 1
               \/ ~isChecking']_vars

\* C7: an abnormal close during a running, unpaused check aborts the run only
\* when the reconnect limit is used up; with fewer than MAX_RECONNECT_ATTEMPTS
\* attempts it schedules a reconnection and the run goes on.
AbortOnlyWhenLimitExceeded ==
    [][\A s \in 1..Len(sockets) :
         (AbnormalClose(s) /\ isChecking /\ ~isPaused)
         => IF reconnectAttempts < MAX_RECONNECT_ATTEMPTS
            THEN /\ isChecking'
                 /\ reconnectAttempts' = reconnectAttempts + 1
                 /\ Len(timers') = Len(timers) + 1
            ELSE ~isChecking']_vars

\* C8: pauseCheck puts the unresolved rest of the tracked batch in front of the
\* queue, closes the current session, clears the tracked batch and sets
\* isPaused; no key is lost or added; and the queue is in ascending input order
\* after every step, so after any sequence of pauses and resumes.
PauseRequeuesRemainder ==
    [][/\ Ascending(jobQueue'.remainingKeys)
       /\ PauseStep => /\ jobQueue'.remainingKeys =
                              currentBatch.batch \o jobQueue.remainingKeys
                       /\ currentBatch' = NullBatch
                       /\ socket' = 0
                       /\ socket # 0 => sockets'[socket].readyState = "closed"
                       /\ isChecking']_vars

\* a pause has put the rest of a partly resolved batch in front of a later key
PausedWithRemainderInFront ==
    /\ isPaused
    /\ Len(jobQueue.remainingKeys) >= 2
    /\ jobQueue.remainingKeys[1].order = 1
    /\ delivered[1] = 1

\* C9: while the run is paused no step opens a session, tracks a batch or
\* starts the work of a session: reconnect and batch-advance timers that fire
\* during a pause do nothing.
NoSessionWhilePaused ==
    [][isPaused /\ isPaused' =>
          /\ Len(sockets') = Len(sockets)
          /\ currentBatch' = NullBatch
          /\ socket' = 0
          /\ \A s \in 1..Len(sockets) :
                sockets[s].queue = <<>> => sockets'[s].queue = <<>>]_vars

\* the reconnect timer of the only session ever opened has fired during a pause
ReconnectTimerFiredWhilePaused ==
    /\ isPaused
    /\ reconnectAttempts = 1
    /\ timers = <<>>
    /\ Len(sockets) = 1

\* C10: stopCheck leaves the store idle (queue and tracked batch discarded,
\* current session closed, isChecking and isPaused false); in an idle store
\* pauseCheck and resumeCheck change nothing; and from a stop until the next
\* startCheck no result is processed.
StopIsTerminal ==
    [][/\ StopStep => /\ jobQueue' = NullQueue
                      /\ currentBatch' = NullBatch
                      /\ socket' = 0
                      /\ socket # 0 => sockets'[socket].readyState = "closed"
                      /\ ~isChecking' /\ ~isPaused'
       /\ ~isChecking' => pauseCheck(Store') = Store' /\ resumeCheck(Store') = Store'
       /\ stopped /\ stopped' => /\ delivered' = delivered
                                 /\ completedCount' = completedCount]_vars

\* the positions of toks that hold the first occurrence of their token
FirstOccurrences(toks) == {i \in 1..Len(toks) : \A j \in 1..(i - 1) : toks[j] # toks[i]}

\* the (token, order) pairs of a sequence of keys or result rows
Pairs(rows) == {<<rows[i].token, rows[i].order>> : i \in 1..Len(rows)}

\* C11: a startCheck that begins a run stores one 'duplicate' result for every
\* occurrence of a token after its first, with that occurrence's order, and
\* queues exactly the first occurrences in input order; no session is ever
\* opened for a batch that holds a later occurrence.
DuplicatesNeverQueued ==
    [][/\ nRuns' = nRuns + 1 =>
            LET toks == tokensRaw'
                keys == currentBatch'.batch \o jobQueue'.remainingKeys
                later == (1..Len(toks)) \ FirstOccurrences(toks)
            IN  /\ Pairs(results'.duplicate) = {<<toks[i], i - 1>> : i \in later}
                /\ Len(results'.duplicate) = Cardinality(later)
                /\ Pairs(keys) = {<<toks[i], i - 1>> : i \in FirstOccurrences(toks)}
                /\ Ascending(keys)
       /\ Len(sockets') > Len(sockets) =>
            \A k \in {sockets'[Len(sockets')].batch[n] :
                          n \in 1..Len(sockets'[Len(sockets')].batch)} :
                /\ k.order + 1 \in FirstOccurrences(tokensRaw')
                /\ tokensRaw'[k.order + 1] = k.token]_vars

\* a run has begun on the input k1, k1, k2: one duplicate, of order 1
DuplicateOfSecondOccurrence ==
    /\ isChecking
    /\ tokensRaw = <<1, 1, 2>>
    /\ Len(results.duplicate) = 1
    /\ results.duplicate[1].order = 1
    /\ totalTasks = 2

\* C12: a startCheck on more than MAX_KEYS_LIMIT tokens posts an error status,
\* opens no session and leaves isChecking false; a startCheck on exactly
\* MAX_KEYS_LIMIT tokens begins a run and opens a session.
KeyLimitBoundary ==
    [][/\ (tokensRaw' # tokensRaw /\ Len(tokensRaw') = MAX_KEYS_LIMIT + 1)
            => /\ ~isChecking'
               /\ lastStatusMessage' = "error"
               /\ sockets' = sockets
               /\ nRuns' = nRuns
       /\ (tokensRaw' # tokensRaw /\ Len(tokensRaw') = MAX_KEYS_LIMIT)
            => /\ isChecking'
               /\ nRuns' = nRuns + 1
               /\ Len(sockets') = Len(sockets) + 1
               /\ totalTasks' = Cardinality(FirstOccurrences(tokensRaw'))]_vars

\* a start on MAX_KEYS_LIMIT + 1 tokens has been rejected
StartOverLimitRejected ==
    /\ Len(tokensRaw) = MAX_KEYS_LIMIT + 1
    /\ ~isChecking
    /\ lastStatusMessage = "error"
    /\ sockets = <<>>

\* ------------------------------------------------------------------------
\* Observations of the backend session
\* ------------------------------------------------------------------------

\* this step sends a message of the given type
Sends(type) ==
    /\ Len(ws'.sent) = Len(ws.sent) + 1
    /\ ws'.sent[Len(ws'.sent)].type = type

\* the messages of a type sent so far
SentOf(type) == SelectSeq(ws.sent, LAMBDA m : m.type = type)

\* the Promise.all of some worker pool resolves in this step
PoolResolves ==
    \E p \in 1..Len(workerPools') :
        /\ workerPools'[p].outcome = "resolved"
        /\ p <= Len(workerPools) => workerPools[p].outcome = "pending"

\* no worker of the session is checking or waiting for its next turn
AllWorkersFinished == \A p \in 1..Len(workerPools) : workerPools[p].active = {}

\* the error messages of onError, which end the session
FatalMessages == {"Invalid initial data for a batch", "Provider not found"}

\* C13: the session sends done exactly when its workers have all finished and
\* no stop was signalled: a step sends done only if then no worker is left and
\* the stop flag is clear, a step in which a pool's workers have all finished
\* with the stop flag clear sends done, and once the stop flag is set no step
\* sends done.
DoneExactlyOnCompletion ==
    [][/\ Sends("done") => AllWorkersFinished' /\ ~taskManager'.isStopped
       /\ (PoolResolves /\ ~taskManager'.isStopped) => Sends("done")
       /\ taskManager.isStopped => ~Sends("done")]_vars

\* a start payload without a usable token list or provider configuration, or
\* naming a provider that is not a key of the provider table
Malformed(data) ==
    \/ ~data.hasData
    \/ data.tokens.type # "array"
    \/ data.providerConfig.type = "undefined"
    \/ data.providerConfig.provider \notin providersData

\* C14: a malformed start command received on an open connection sends exactly
\* one message, an error, closes the connection with code 1011, claims no item,
\* starts no worker and so emits no result or done message.
MalformedStartEndsSession ==
    [][\A data \in StartPayloads :
          (Malformed(data) /\ ws.readyState = "open" /\ ReceiveStart(data))
          => /\ Sends("error")
             /\ ws'.readyState = "closing"
             /\ ws'.closeCode = 1011
             /\ taskManager'.currentIndex = taskManager.currentIndex
             /\ workerPools' = workerPools]_vars

\* the session has completed, was stopped, or ended on a fatal start error
SessionTerminal ==
    \/ taskManager.isStopped
    \/ \E i \in 1..Len(ws.sent) :
          \/ ws.sent[i].type = "done"
          \/ ws.sent[i].type = "error" /\ ws.sent[i].message \in FatalMessages

\* C15: every terminal transition closes the connection: the step that sends
\* done closes it with code 1000, the step that sends a fatal start error
\* closes it with code 1011, a stop command on an open connection closes it
\* with code 1000, and in no state is a completed, stopped or errored session
\* left with its connection open.
TerminalTransitionCloses ==
    [][/\ Sends("done") => ws'.readyState = "closing" /\ ws'.closeCode = 1000
       /\ (Sends("error") /\ ws'.sent[Len(ws'.sent)].message \in FatalMessages)
            => ws'.readyState = "closing" /\ ws'.closeCode = 1011
       /\ (~taskManager.isStopped /\ taskManager'.isStopped /\ ws.readyState = "open"
           /\ ws'.readyState = "closing")
            => ws'.closeCode = 1000
       /\ SessionTerminal' => ws'.readyState # "open"]_vars

\* a session has sent a result and done and closed with code 1000
CompletedAndClosed ==
    /\ SentOf("result") # <<>>
    /\ SentOf("done") # <<>>
    /\ ws.readyState = "closing"
    /\ ws.closeCode = 1000

\* ------------------------------------------------------------------------
\* Properties of the validator
\* ------------------------------------------------------------------------

\* C16: checkToken never throws: for every provider style and every outcome
\* of the upstream calls (rejected fetches, non-2xx answers, bodies that do
\* not parse, broken streams, failing balance adapters) the call returns a
\* result that carries the token it was given and a boolean isValid.
CheckTokenNeverThrows ==
    checked.n = 1 =>
        /\ ~checked.call.thrown
        /\ checked.call.result.token = checked.token
        /\ checked.call.result.isValid \in BOOLEAN

\* a call whose validation request was rejected has returned a result
RejectedFetchReturnsResult ==
    /\ checked.n = 1
    /\ checked.providerMeta.apiStyle = "gemini"
    /\ checked.env.validation[1].throws
    /\ ~checked.call.thrown
    /\ ~checked.call.result.isValid

\* the first answer is a failure whose body has error.code
\* 'unsupported_parameter' and error.param 'max_tokens'
UnsupportedMaxTokens(response) ==
    /\ ~response.throws
    /\ ~response.ok
    /\ response.content.json
    /\ response.content.error.code = <<"unsupported", "parameter">>
    /\ response.content.error.param = <<"max", "tokens">>

\* C17: for an OpenAI-style provider, a failure whose body has error.code
\* 'unsupported_parameter' and error.param 'max_tokens' is followed by
\* exactly one further validation request, whose body has
\* max_completion_tokens and no max_tokens; whatever the retry is answered
\* with, no third request is sent; any other outcome of the first request
\* is followed by no further validation request.
OpenAIRetriesExactlyOnce ==
    (checked.n = 1 /\ checked.providerMeta.apiStyle = "openai") =>
        LET requests == ValidationRequests(checked.call.io)
        IN  IF UnsupportedMaxTokens(checked.env.validation[1])
            THEN /\ Len(requests) = 2
                 /\ "max_tokens" \in requests[1].body
                 /\ "max_completion_tokens" \in requests[2].body
                 /\ "max_tokens" \notin requests[2].body
                 /\ requests[2].url = requests[1].url
            ELSE Len(requests) = 1

\* the retry was answered with the same unsupported-parameter error, and
\* the call ended with two validation requests and an invalid result
RetryFailedWithSameError ==
    /\ checked.n = 1
    /\ checked.providerMeta.apiStyle = "openai"
    /\ UnsupportedMaxTokens(checked.env.validation[1])
    /\ UnsupportedMaxTokens(checked.env.validation[2])
    /\ Len(ValidationRequests(checked.call.io)) = 2
    /\ ~checked.call.result.isValid

\* the answer to the last validation request of the call checked
LastAnswer ==
    checked.env.validation[Len(ValidationRequests(checked.call.io))]

\* the call checked went through the template with streaming enabled and
\* its last validation request was answered with a 2xx response
StreamedSuccess ==
    /\ checked.n = 1
    /\ checked.providerMeta.apiStyle # "undefined"
    /\ checked.providerConfig.enableStream
    /\ ~LastAnswer.throws
    /\ LastAnswer.ok

\* C18: with enableStream set and a 2xx response, the result is isValid
\* false with the 'stream ended prematurely' message when the first read
\* reports the stream closed without data, and isValid true when the first
\* read yields a chunk; on both paths exactly one read is made and the
\* reader is cancelled and released.
StreamValidatedByFirstRead ==
    (StreamedSuccess /\ LastAnswer.stream \in {"done", "chunk"}) =>
        /\ LastAnswer.stream = "done" =>
              /\ ~checked.call.result.isValid
              /\ checked.call.result.message =
                     <<"validation", "failed", "stream", "ended", "prematurely">>
        /\ LastAnswer.stream = "chunk" => checked.call.result.isValid
        /\ checked.call.io.reads = 1
        /\ checked.call.io.cancels = 1
        /\ checked.call.io.releases = 1

\* the call checked asked the balance endpoint, which it does only after a
\* successful validation
BalanceAsked ==
    /\ checked.n = 1
    /\ \E i \in 1..Len(checked.call.io.requests) : checked.call.io.requests[i].url = "balance"

\* the balance endpoint failed: a rejected fetch, a non-2xx response, or a
\* body without a usable amount
BalanceFailed(resp) == resp.throws \/ ~resp.ok \/ resp.body # "usable"

\* C19: when validation succeeded and the balance adapter then fails in any
\* way (non-2xx response, unusable body, thrown exception), the result is
\* still isValid true and carries balance -1 with the 'valid but balance
\* unavailable' message.
BalanceFailureKeepsValid ==
    (BalanceAsked /\ BalanceFailed(checked.env.balance)) =>
        /\ checked.call.result.isValid
        /\ checked.call.result.balanceSet
        /\ checked.call.result.balance = -1
        /\ checked.call.result.message = BALANCE_UNAVAILABLE.message

EachOrderStoredOnce ==
    /\ DOMAIN results = CategorySet
    /\ Cardinality(CategorySet) = 7
    /\ \A c1, c2 \in DOMAIN results :
          \A i \in DOMAIN results[c1] : \A j \in DOMAIN results[c2] :
              (c1 # c2 \/ i # j) => results[c1][i].order # results[c2][j].order

\* C22: for a valid result of a provider that has a balance, processResult
\* assigns zeroBalance when the balance is 0, lowBalance when it is below
\* the threshold, and valid otherwise; for a provider without a balance, or
\* for an invalid result, the category is the one categorizeTokenError
\* returned.
FinalCategoryFollowsBalance ==
    \A i \in DOMAIN categorized :
        "finalCategory" \in DOMAIN categorized[i] =>
            LET c == categorized[i]
            IN  IF c.res.isValid /\ c.provider = "deepseek"
                THEN /\ (c.res.balanceSet /\ c.res.balance = 0) <=> c.finalCategory = "zeroBalance"
                     /\ (c.res.balanceSet /\ c.res.balance # 0 /\ c.res.balance < threshold)
                            <=> c.finalCategory = "lowBalance"
                     /\ c.finalCategory \in {"zeroBalance", "lowBalance", "valid"}
                ELSE c.finalCategory = c.category

\* a valid key of a provider with a balance, whose balance is 0, has been
\* classified as zeroBalance
ZeroBalanceClassified ==
    /\ Len(categorized) = 1
    /\ "finalCategory" \in DOMAIN categorized[1]
    /\ categorized[1].provider = "deepseek"
    /\ categorized[1].res.isValid
    /\ categorized[1].res.balance = 0
    /\ categorized[1].res.balanceSet
    /\ categorized[1].finalCategory = "zeroBalance"

\* ------------------------------------------------------------------------
\* Properties of the settings
\* ------------------------------------------------------------------------

\* C23: after any sequence of input events on the concurrency field the
\* configured concurrency is an integer from 1 to 20, and so is the
\* concurrency of the start command of every session opened.
ConcurrencyWithinRange ==
    /\ configConcurrency \in 1..20
    /\ \A s \in DOMAIN sockets : sockets[s].concurrency \in 1..20

\* the user typed 999 and started a run: the session was sent a start
\* command with concurrency 20
StartSentAfterOversizedInput ==
    /\ concurrencyField = Typed("999")
    /\ \E s \in DOMAIN sockets :
          /\ sockets[s].readyState = "open"
          /\ sockets[s].queue # <<>>
          /\ sockets[s].concurrency = 20

\* ------------------------------------------------------------------------
\* Properties of the batch bookkeeping
\* ------------------------------------------------------------------------

\* the orders of a list of keys
OrdersOf(keys) == {keys[i].order : i \in DOMAIN keys}

\* the orders of the tracked batch in flight
InFlightOrders == IF currentBatch.isNull THEN {} ELSE OrdersOf(currentBatch.batch)

\* the orders of the remaining queue
QueuedOrders == IF jobQueue.isNull THEN {} ELSE OrdersOf(jobQueue.remainingKeys)

\* the orders of the credentials of the job that have received no result
UnresolvedOrders == {o \in OrdersOf(KeysFrom(tokensRaw, 1)) : delivered[o + 1] = 0}

\* C24: at every checkpoint of a run the tracked batch in flight and the
\* remaining queue have no credential in common, and together they hold
\* exactly the credentials of the job that have not yet received a result.
BatchAndQueuePartitionUnresolved ==
    isChecking =>
        /\ InFlightOrders \cap QueuedOrders = {}
        /\ InFlightOrders \cup QueuedOrders = UnresolvedOrders

\* ------------------------------------------------------------------------
\* Properties of the reconnection
\* ------------------------------------------------------------------------

\* this step is the reconnect callback i of onclose opening a new socket
ReconnectStep(i) ==
    /\ timers[i] > 0
    /\ TimerFire(i)
    /\ Len(sockets') > Len(sockets)

\* C25: the start payload of a reconnected session is exactly the keys of
\* the interrupted batch that had no result when its socket closed, in
\* their original order, and holds no key of another batch.
ReconnectSendsInterruptedBatch ==
    [][\A i \in DOMAIN timers :
          ReconnectStep(i) => sockets'[Len(sockets')].batch = interrupted[i]]_vars


\* ------------------------------------------------------------------------
\* Properties of the worker pool of a session
\* ------------------------------------------------------------------------

\* C26: every credential of a batch is claimed through getNextItem by exactly
\* one worker: no item of a token array given to the task manager is ever
\* returned twice, and when the workers of a pool have all ended with the
\* stop flag clear every item of every such array has been returned.
EveryCredentialClaimedOnce ==
    [][/\ \A g \in DOMAIN claims' : \A i \in DOMAIN claims'[g] : claims'[g][i] <= 1
       /\ (PoolResolves /\ ~taskManager'.isStopped) =>
              \A g \in DOMAIN claims' : \A i \in DOMAIN claims'[g] : claims'[g][i] = 1]_vars


\* the checkToken calls of the session that have not settled
InFlight ==
    UNION {{<<p, w>> : w \in {v \in workerPools[p].active : v.phase = "checking"}} :
              p \in 1..Len(workerPools)}

\* C27: the number of validator invocations in flight in one session never
\* exceeds the concurrency N the task manager is set to (5 when the start
\* command gives none), whatever commands the session receives.
InFlightWithinConcurrency == Cardinality(InFlight) <= taskManager.concurrency


\* the stop flag has been set: by a stop command or by the close or error
\* event of the connection
StopSignalled == taskManager.isStopped

ClaimStep == taskManager'.currentIndex > taskManager.currentIndex

\* this step begins a call of checkToken
ValidationStarts == InFlight' \ InFlight # {}

\* C29: once stop has been signalled no worker claims another credential and
\* no new validation starts, whatever arrives afterwards.
NoClaimAfterStop == [][StopSignalled => ~ClaimStep /\ ~ValidationStarts]_vars

\* a worker came back from its yield after the stop command with items left
\* in the queue, and ended without claiming one
WorkerEndedOnStop ==
    /\ StopSignalled
    /\ taskManager.currentIndex < Len(taskManager.queue)
    /\ taskManager.currentIndex > 0
    /\ AllWorkersFinished
    /\ SentOf("result") # <<>>

\* C30: a session runs at most one worker pool over one batch: a start
\* command is honoured only while the session awaits its first start, and a
\* start received after a pool was created leaves pools and queue unchanged.
AtMostOnePoolPerSession ==
    /\ Len(workerPools) <= 1
    /\ Len(batches) <= 1


\* ------------------------------------------------------------------------
\* Properties of the message listener
\* ------------------------------------------------------------------------

\* C31: a message that is not valid JSON, or whose command is neither start
\* nor stop, received on an open connection sends exactly one message, an
\* error, leaves the connection open and leaves queue, claim index, stop flag
\* and worker pools as they were.
BadMessageOnlyReportsError ==
    [][\A command \in {"invalid json", "unknown"} :
          (ws.readyState = "open" /\ ReceiveOther(command))
          => /\ Sends("error")
             /\ ws'.readyState = "open"
             /\ taskManager' = taskManager
             /\ workerPools' = workerPools]_vars

\* a start was processed after an unknown command and after a message that
\* was not JSON had been answered
StartProcessedAfterBadMessages ==
    /\ Len(ws.sent) >= 3
    /\ ws.sent[1].message = "Unknown command for this session"
    /\ ws.sent[2].message = "Invalid JSON message"
    /\ ws.sent[3].type = "result"
    /\ nCommands = 3


\* the result messages sent so far for an order
ResultsFor(order) == SelectSeq(ws.sent, LAMBDA m : m.type = "result" /\ m.order = order)

\* C32: when the session emits done, exactly one result message has been
\* emitted for every credential of every batch it was started with, and no
\* result message is emitted once done has been sent.
DoneFollowsEveryResult ==
    [][/\ Sends("done") =>
              \A g \in DOMAIN batches : \A i \in DOMAIN batches[g] :
                  Len(ResultsFor(batches[g][i].order)) = 1
       /\ SentOf("done") # <<>> => ~Sends("result")]_vars


\* ------------------------------------------------------------------------
\* Properties of the callbacks of a stopped run
\* ------------------------------------------------------------------------

\* C33: after stopCheck no pending callback of the run (the batch advance of
\* the done branch or a reconnect of onclose) opens a session, changes
\* isChecking or isPaused, or posts the completion status.
StoppedRunCallbacksInert ==
    [][\A i \in DOMAIN timers :
          (stopped /\ TimerFire(i))
          => /\ Len(sockets') = Len(sockets)
             /\ isChecking' = isChecking
             /\ isPaused' = isPaused
             /\ lastStatusMessage' = lastStatusMessage]_vars


\* ------------------------------------------------------------------------
\* Properties of the balance check and of unsupported providers
\* ------------------------------------------------------------------------

\* C34: every result with isValid true that checkToken returns for a
\* provider whose metadata names a balance adapter has had the adapter
\* invoked and its fields merged, on every path, the retry without
\* max_tokens included.
ValidResultCarriesBalance ==
    (/\ checked.n = 1
     /\ checked.providerMeta.balanceCheck \in balanceCheckers
     /\ checked.call.result.isValid)
    => BalanceAsked /\ checked.call.result.balanceSet


\* C35: checkToken for a provider whose apiStyle is none of openai,
\* openai_responses, anthropic, gemini returns an error result (isValid
\* false, error true) and has built no request and made no network call.
UnsupportedStyleMakesNoCall ==
    (/\ checked.n = 1
     /\ checked.providerMeta.apiStyle \notin {"openai", "openai_responses", "anthropic", "gemini"})
    => /\ ~checked.call.thrown
       /\ ~checked.call.result.isValid
       /\ checked.call.result.error
       /\ checked.call.io = NoEffects

\* a provider without a known apiStyle was checked against an upstream that
\* would have accepted the key
UnsupportedStyleChecked ==
    /\ checked.n = 1
    /\ checked.providerMeta.apiStyle = "undefined"
    /\ checked.env.validation[1].ok
    /\ checked.call.result.message = <<"unsupported", "provider", "type">>


\* ------------------------------------------------------------------------
\* Properties of the error message of a failed validation
\* ------------------------------------------------------------------------

\* the candidates for the message in the order of the claim, <<>> standing
\* for a member that is absent (or for an error.code that spells a number)
MessageCandidates(content) ==
    << content.error.reason,
       IF content.error.code \in {<<"400">>, <<"401">>, <<"429">>} THEN <<>>
       ELSE content.error.code,
       content.error.message,
       content.message,
       content.errors,
       IF content.detail # <<>> /\ content.detailIsObject
       THEN <<"{">> \o content.detail \o <<"}">> ELSE content.detail >>

\* C36: for a non-2xx response handleApiError chooses the message from the
\* first present of error.details[0].reason, a non-numeric error.code,
\* error.message, the top-level message, errors.message and detail (the
\* JSON text when it is an object); when none is present it is the fixed
\* authentication message for 401, the fixed rate-limit message for 429 and
\* 'HTTP {status}' otherwise.
MessageFollowsPrecedence ==
    apiError.n = 1 =>
        LET candidates == MessageCandidates(apiError.response.content)
            present == {i \in DOMAIN candidates : candidates[i] # <<>>}
        IN  IF present # {}
            THEN apiError.error.message =
                     candidates[CHOOSE i \in present : \A j \in present : i <= j]
            ELSE apiError.error.message =
                     CASE apiError.response.status = 401 -> <<"authentication", "failed">>
                       [] apiError.response.status = 429 -> <<"too", "many", "requests">>
                       [] OTHER -> <<"HTTP", ToString(apiError.response.status)>>

\* a body with a numeric error.code, an error.message and an object as
\* detail was handled: the message is error.message
NumericCodeSkipped ==
    /\ apiError.n = 1
    /\ apiError.response.content.error.reason = <<>>
    /\ apiError.response.content.error.code = <<"401">>
    /\ apiError.response.content.detailIsObject
    /\ apiError.error.message = <<"Incorrect", "API", "key">>


\* ------------------------------------------------------------------------
\* Properties of the result buffer
\* ------------------------------------------------------------------------

\* the items of a category among those given
OfCategory(items, c) == SelectSeq(items, LAMBDA it : it.finalCategory = c)

\* C37: after any handler the result buffer holds fewer than BUFFER_MAX_SIZE
\* items, a non-empty buffer has its flush timer pending, and every result
\* given to bufferResult is in the results store exactly once or still in
\* the buffer, in the order of arrival.
BufferFlushedOnceInOrder ==
    /\ Len(resultBuffer) < BUFFER_MAX_SIZE
    /\ resultBuffer # <<>> => flushTimerId /\ flushArmed
    /\ \A c \in CategorySet \ {"duplicate"} :
          results[c] \o FlattenItems(OfCategory(resultBuffer, c))
              = FlattenItems(OfCategory(arrived, c))

\* three results arrived: two were flushed when the buffer was full, the
\* third waits for the flush timer
ThirdResultAwaitsTimer ==
    /\ Len(arrived) = 3
    /\ Len(resultBuffer) = 1
    /\ flushArmed
    /\ TotalStored >= 2


\* ------------------------------------------------------------------------
\* Properties of the order of a key
\* ------------------------------------------------------------------------

\* the keys the store and its sessions hold: queued, tracked, given to a
\* socket, sent to a session, or being checked
KeysHeld ==
    {jobQueue.remainingKeys[i] : i \in DOMAIN jobQueue.remainingKeys}
    \cup {currentBatch.batch[i] : i \in DOMAIN currentBatch.batch}
    \cup UNION {{sockets[s].batch[i] : i \in DOMAIN sockets[s].batch}
                \cup {sockets[s].queue[i] : i \in DOMAIN sockets[s].queue}
                \cup UNION {sockets[s].pools[p] : p \in DOMAIN sockets[s].pools} :
                s \in DOMAIN sockets}


\* the keys startCheck makes of the input: each token with its position
InputPositions == {[token |-> tokensRaw[i], order |-> i - 1] : i \in DOMAIN tokensRaw}

\* C38: every result a session emits carries the order (and the token) of
\* the item it was computed for, whether checkToken returned or threw; and
\* no step gives a key another order: a key that a step brings into the
\* queue, the tracked batch or a session is a key that was already held, or
\* a token of the input of the run with its position as order.
ResultCarriesOrderOfItem ==
    [][/\ \A s \in DOMAIN sockets : \A p \in DOMAIN sockets[s].pools :
            \A item \in sockets[s].pools[p] :
                WorkerResult(s, p, item)
                => /\ Len(arrived') = Len(arrived) + 1
                   /\ arrived'[Len(arrived')].order = item.order
                   /\ arrived'[Len(arrived')].token = item.token
                   /\ delivered'[item.order + 1] > delivered[item.order + 1]
                   /\ resultData(Rejected(NoEffects, item.token), item).order = item.order
       /\ KeysHeld' \subseteq KeysHeld \cup InputPositions']_vars

\* after a reconnect and a pause the result of the key at the third input
\* position arrived, the second position holding a duplicate
ResultAfterReconnectAndPause ==
    /\ reconnectAttempts > 0
    /\ isPaused
    /\ results["duplicate"] # <<>>
    /\ \E i \in DOMAIN arrived : arrived[i].order = 2


\* ------------------------------------------------------------------------
\* Properties of the size of a batch
\* ------------------------------------------------------------------------

\* the onopen handler of socket s runs and its start command goes out
StartSent(s) ==
    /\ SocketOpen(s)
    /\ socket # 0
    /\ sockets'[socket].readyState = "open"

\* C39: every start payload the store sends holds at least 1 and at most
\* BATCH_SIZE keys, for first batches, batches formed after a resume, and
\* batches sent again by a reconnect.
StartPayloadWithinBatchSize ==
    [][\A s \in DOMAIN sockets :
          StartSent(s) => Len(sockets[s].batch) \in 1..BATCH_SIZE]_vars


\* ------------------------------------------------------------------------
\* Properties of the displayed lists
\* ------------------------------------------------------------------------

\* a stored item matches a search term: the term is empty, or the key or its
\* display text contains it, letter case ignored
MatchesTerm(item, category, searchTerm) ==
    \/ searchTerm = <<>>
    \/ includes(toLowerCase(tokenText(item.token)), toLowerCase(searchTerm))
    \/ includes(toLowerCase(getDisplayText(item, category)), toLowerCase(searchTerm))

\* how often an item occurs in a list
Occurrences(items, x) == Cardinality({i \in DOMAIN items : items[i] = x})

\* C40: with the default sort, the list getSortedResults returns for a
\* category is in ascending order of order and holds exactly the stored
\* items of the category that match the search term, each as often as it is
\* stored, whatever order the results arrived in.
SortedListAscendingAndComplete ==
    \A category \in CategorySet : \A searchTerm \in SearchTerms :
        LET shown == getSortedResults(results, category, searchTerm)
            stored == results[category]
        IN  /\ \A i \in 2..Len(shown) : shown[i - 1].order <= shown[i].order
            /\ Len(shown) = Cardinality({i \in DOMAIN stored :
                                 MatchesTerm(stored[i], category, searchTerm)})
            /\ \A i \in DOMAIN shown : MatchesTerm(shown[i], category, searchTerm)
            /\ \A i \in DOMAIN stored :
                   MatchesTerm(stored[i], category, searchTerm)
                   => Occurrences(shown, stored[i]) = Occurrences(stored, stored[i])

\* the valid results are stored out of input order, and a search term
\* selects some but not all of them
StoredOutOfOrderAndFiltered ==
    /\ \E i \in 2..Len(results["valid"]) :
           results["valid"][i].order < results["valid"][i - 1].order
    /\ Len(getSortedResults(results, "valid", <<"SK">>)) = Len(results["valid"])
    /\ Len(getSortedResults(results, "valid", <<"3">>)) > 0
    /\ Len(getSortedResults(results, "valid", <<"3">>)) < Len(results["valid"])

====
